---- MODULE Spec2Model ----
(***************************************************************************)
(* Work-item time accounting and scoring of the Azure DevOps CLI tool:     *)
(* the business-hours clock and state-transition stack of                  *)
(* classes/state_transition_stack.py and the fair-efficiency scoring of    *)
(* classes/efficiency_calculator.py.                                       *)
(*                                                                         *)
(* Units.  An instant is a number of seconds since Monday 00:00:00 UTC of  *)
(* a reference week.  Hours are kept in hundredths of an hour (the code    *)
(* rounds every clock result to 2 decimals), scores in hundredths of a     *)
(* percent, day differences in hundredths of a day.                        *)
(***************************************************************************)
EXTENDS Integers, Sequences, FiniteSets, TLC

\* ---------------------------------------------------------------------
\* Bounds of the model
\* ---------------------------------------------------------------------
MaxEvents == 4
MaxRevisions == 3
MaxItems == 3

\* ---------------------------------------------------------------------
\* Optional values (Python None)
\* ---------------------------------------------------------------------
None == <<>>
Some(v) == <<v>>
IsSome(o) == o # <<>>
Val(o) == o[1]

\* the outcome of a call that raised an exception of the given kind
Raised(kind) == [raised |-> kind]
IsRaised(r) == "raised" \in DOMAIN r

Min(a, b) == IF a <= b THEN a ELSE b
Max(a, b) == IF a >= b THEN a ELSE b
Abs(a) == IF a < 0 THEN 0 - a ELSE a

\* Python round(): n/d rounded to the nearest integer, ties to even (n >= 0, d > 0)
RoundDiv(n, d) ==
  LET q == n \div d
      r == n % d
  IN  IF 2 * r < d THEN q
      ELSE IF 2 * r > d THEN q + 1
      ELSE IF q % 2 = 0 THEN q ELSE q + 1

\* ---------------------------------------------------------------------
\* Time
\* ---------------------------------------------------------------------
SecPerHour == 3600
SecPerDay == 86400
\* datetime.max.time() is 23:59:59.999999; the microseconds are dropped
DayMaxSec == 86399

\* pytz zone data.  astimezone() uses the zone's offset in force (CST for
\* America/Mexico_City); datetime.replace(tzinfo=zone) attaches the zone's
\* first entry, which is its local mean time (LMT -6:37 for Mexico City).
Zones == {"America/Mexico_City", "UTC"}
UtcOffset(tz) == IF tz = "America/Mexico_City" THEN 0 - 6 * 3600 ELSE 0
ReplaceTzOffset(tz) == IF tz = "America/Mexico_City" THEN 0 - (6 * 3600 + 37 * 60) ELSE 0

\* wall-clock seconds of instant t after t.astimezone(tz)
astimezone(t, tz) == t + UtcOffset(tz)
\* .date() of a wall-clock value, as a day number; day 0 is a Monday
date(wall) == wall \div SecPerDay
weekday(d) == d % 7
\* instant of datetime.combine(day d, time sec).replace(tzinfo=tz)
combine_replace(d, sec, tz) == d * SecPerDay + sec - ReplaceTzOffset(tz)

\* ---------------------------------------------------------------------
\* Business-hours clock (WorkItemStateStack)
\* A stack configuration cfg has office_start_hour, office_end_hour,
\* max_hours_per_day, timezone, timeframe_start, timeframe_end (optional
\* day numbers) and the four state lists.
\* ---------------------------------------------------------------------

\* seconds of overlap of [day_start, day_end] with the office window of day d
calculate_office_hours_in_day(cfg, d, day_start, day_end) ==
  LET office_start_dt == combine_replace(d, cfg.office_start_hour * SecPerHour, cfg.timezone)
      office_end_dt == combine_replace(d, cfg.office_end_hour * SecPerHour, cfg.timezone)
      effective_start == Max(day_start, office_start_dt)
      effective_end == Min(day_end, office_end_dt)
  IN  IF effective_start >= effective_end THEN 0
      ELSE effective_end - effective_start

\* <<day_start, day_end>> of day d within the period, None when they do not overlap
get_day_boundaries(cfg, d, period_start, period_end) ==
  LET full_start == combine_replace(d, 0, cfg.timezone)
      full_end == combine_replace(d, DayMaxSec, cfg.timezone)
      day_start == IF d = date(astimezone(period_start, cfg.timezone)) THEN period_start ELSE full_start
      day_end == IF d = date(astimezone(period_end, cfg.timezone)) THEN period_end ELSE full_end
  IN  IF day_start >= day_end THEN None ELSE Some(<<day_start, day_end>>)

\* seconds credited to day d of the period
DailySeconds(cfg, d, start_time, end_time, count_all_hours) ==
  IF weekday(d) >= 5 THEN 0
  ELSE LET b == get_day_boundaries(cfg, d, start_time, end_time)
       IN  IF IsSome(b) /\ Val(b)[1] < Val(b)[2]
           THEN LET office_hours == calculate_office_hours_in_day(cfg, d, Val(b)[1], Val(b)[2])
                IN  IF count_all_hours THEN office_hours
                    ELSE Min(office_hours, cfg.max_hours_per_day * SecPerHour)
           ELSE 0

RECURSIVE SumDays(_, _, _, _, _, _)
SumDays(cfg, d, end_date, start_time, end_time, count_all_hours) ==
  IF d > end_date THEN 0
  ELSE DailySeconds(cfg, d, start_time, end_time, count_all_hours)
       + SumDays(cfg, d + 1, end_date, start_time, end_time, count_all_hours)

\* hundredths of an hour
calculate_business_hours_in_period(cfg, start_time, end_time, count_all_hours) ==
  IF start_time >= end_time THEN 0
  ELSE LET current_date == date(astimezone(start_time, cfg.timezone))
           end_date == date(astimezone(end_time, cfg.timezone))
       IN  RoundDiv(SumDays(cfg, current_date, end_date, start_time, end_time, count_all_hours), 36)

timeframe_start_dt(cfg) ==
  IF IsSome(cfg.timeframe_start) THEN Some(Val(cfg.timeframe_start) * SecPerDay) ELSE None
timeframe_end_dt(cfg) ==
  IF IsSome(cfg.timeframe_end) THEN Some(Val(cfg.timeframe_end) * SecPerDay + DayMaxSec) ELSE None

\* variant: the start of the period is not clamped to the timeframe
apply_timeframe_filtering_no_start_clamp(cfg, start_time, end_time) ==
  LET te == timeframe_end_dt(cfg)
      filtered_end == IF IsSome(te) /\ end_time > Val(te) THEN Val(te) ELSE end_time
  IN  <<start_time, filtered_end>>

apply_timeframe_filtering(cfg, start_time, end_time) ==
  LET ts == timeframe_start_dt(cfg)
      te == timeframe_end_dt(cfg)
      filtered_start == IF IsSome(ts) /\ start_time < Val(ts) THEN Val(ts) ELSE start_time
      filtered_end == IF IsSome(te) /\ end_time > Val(te) THEN Val(te) ELSE end_time
  IN  <<filtered_start, filtered_end>>

\* variant: a period that runs backwards counts negative
calculate_time_in_state_signed(cfg, start_time, end_time, state) ==
  IF start_time > end_time
  THEN 0 - calculate_business_hours_in_period(cfg, end_time, start_time,
                                              state \notin cfg.productive_states)
  ELSE IF state \in cfg.productive_states
  THEN LET f == apply_timeframe_filtering(cfg, start_time, end_time)
       IN  IF f[1] >= f[2] THEN 0
           ELSE calculate_business_hours_in_period(cfg, f[1], f[2], FALSE)
  ELSE calculate_business_hours_in_period(cfg, start_time, end_time, TRUE)

calculate_time_in_state(cfg, start_time, end_time, state) ==
  IF state \in cfg.productive_states
  THEN LET f == apply_timeframe_filtering(cfg, start_time, end_time)
       IN  IF f[1] >= f[2] THEN 0
           ELSE calculate_business_hours_in_period(cfg, f[1], f[2], FALSE)
  ELSE calculate_business_hours_in_period(cfg, start_time, end_time, TRUE)

\* ---------------------------------------------------------------------
\* State-transition stack (WorkItemStateStack)
\* ---------------------------------------------------------------------
EmptyDict == [k \in {} |-> 0]
DictAdd(acc, k, v) ==
  [j \in (DOMAIN acc) \cup {k} |->
     (IF j \in DOMAIN acc THEN acc[j] ELSE 0) + (IF j = k THEN v ELSE 0)]
RECURSIVE SumOver(_, _)
SumOver(acc, keys) ==
  IF keys = {} THEN 0
  ELSE LET k == CHOOSE j \in keys : TRUE
       IN  acc[k] + SumOver(acc, keys \ {k})
DictSum(acc) == SumOver(acc, DOMAIN acc)

\* the stack after construction
NewStack ==
  [transitions |-> <<>>,
   time_accumulator |-> EmptyDict,
   paused_time_accumulator |-> EmptyDict,
   current_state |-> None,
   entry_time |-> None,
   total_productive_hours |-> 0,
   total_paused_hours |-> 0,
   total_calendar_time |-> 0,
   was_reopened |-> FALSE,
   active_after_reopen_hours |-> 0,
   is_completed |-> FALSE,
   should_ignore |-> FALSE]

\* variant: every productive interval counts as active-after-reopen
reopen_credit_always(s, time_in_state) == time_in_state

\* hours added to active_after_reopen_hours when a productive interval closes
reopen_credit(s, time_in_state) ==
  IF s.was_reopened THEN time_in_state ELSE 0

\* the completion -> productive pattern on closing an interval
reopened_pattern(cfg, current_state, new_state) ==
  current_state \in cfg.completion_states /\ new_state \in cfg.productive_states

\* variant: an interval in a state of no category is not recorded
credit_interval_drops_unknown(cfg, s, cur, time_in_state) ==
  IF cur \in cfg.productive_states
  THEN [s EXCEPT !.time_accumulator = DictAdd(@, cur, time_in_state),
                 !.total_productive_hours = @ + time_in_state,
                 !.active_after_reopen_hours = @ + reopen_credit(s, time_in_state)]
  ELSE IF cur \in cfg.pause_stopper_states
  THEN [s EXCEPT !.paused_time_accumulator = DictAdd(@, cur, time_in_state),
                 !.total_paused_hours = @ + time_in_state]
  ELSE s

\* the accumulators after crediting time_in_state to the state cur that is left
credit_interval(cfg, s, cur, time_in_state) ==
  IF cur \in cfg.productive_states
  THEN [s EXCEPT !.time_accumulator = DictAdd(@, cur, time_in_state),
                 !.total_productive_hours = @ + time_in_state,
                 !.active_after_reopen_hours = @ + reopen_credit(s, time_in_state)]
  ELSE IF cur \in cfg.pause_stopper_states
  THEN [s EXCEPT !.paused_time_accumulator = DictAdd(@, cur, time_in_state),
                 !.total_paused_hours = @ + time_in_state]
  ELSE [s EXCEPT !.time_accumulator = DictAdd(@, cur, time_in_state)]

\* the last recorded transition receives the time spent in its state
update_last_transition(s, time_in_state) ==
  IF Len(s.transitions) > 0
  THEN [s EXCEPT !.transitions[Len(s.transitions)].time_in_state = time_in_state]
  ELSE s

\* the stack after the interval of time_in_state hours in cur is closed
close_with(cfg, s, new_state, timestamp, cur, time_in_state) ==
  [update_last_transition(credit_interval(cfg, s, cur, time_in_state), time_in_state)
     EXCEPT !.total_calendar_time = @ + (timestamp - Val(s.entry_time)),
            !.was_reopened = @ \/ reopened_pattern(cfg, cur, new_state)]

\* closes the open interval (current_state, entry_time) at timestamp
close_interval(cfg, s, new_state, timestamp) ==
  close_with(cfg, s, new_state, timestamp, Val(s.current_state),
             calculate_time_in_state(cfg, Val(s.entry_time), timestamp, Val(s.current_state)))

\* variant: the open interval keeps its first entry time
record_transition_keeps_entry(cfg, s, new_state, timestamp) ==
  LET s0 == IF new_state \in cfg.completion_states
            THEN [s EXCEPT !.is_completed = TRUE] ELSE s
      s1 == IF IsSome(s0.current_state) /\ Val(s0.current_state) # "" /\ IsSome(s0.entry_time)
            THEN close_interval(cfg, s0, new_state, timestamp)
            ELSE s0
  IN  [s1 EXCEPT !.transitions = Append(@, [state |-> new_state, timestamp |-> timestamp,
                                             time_in_state |-> 0]),
                 !.current_state = Some(new_state),
                 !.entry_time = IF IsSome(s.entry_time) THEN s.entry_time ELSE Some(timestamp)]

\* push_state for a state that is not ignored
record_transition(cfg, s, new_state, timestamp) ==
  LET s0 == IF new_state \in cfg.completion_states
            THEN [s EXCEPT !.is_completed = TRUE] ELSE s
      s1 == IF IsSome(s0.current_state) /\ Val(s0.current_state) # "" /\ IsSome(s0.entry_time)
            THEN close_interval(cfg, s0, new_state, timestamp)
            ELSE s0
  IN  [s1 EXCEPT !.transitions = Append(@, [state |-> new_state, timestamp |-> timestamp,
                                             time_in_state |-> 0]),
                 !.current_state = Some(new_state),
                 !.entry_time = Some(timestamp)]

\* variant: completion is marked before the ignored states are looked at
push_state_completes_first(cfg, s, new_state, timestamp) ==
  IF new_state \in cfg.ignored_states
  THEN [s EXCEPT !.should_ignore = TRUE,
                 !.is_completed = @ \/ new_state \in cfg.completion_states]
  ELSE record_transition(cfg, s, new_state, timestamp)

\* variant: recording a transition clears the ignore mark
push_state_resets(cfg, s, new_state, timestamp) ==
  IF new_state \in cfg.ignored_states
  THEN [s EXCEPT !.should_ignore = TRUE]
  ELSE [record_transition(cfg, s, new_state, timestamp) EXCEPT !.should_ignore = FALSE]

push_state(cfg, s, new_state, timestamp) ==
  IF new_state \in cfg.ignored_states
  THEN [s EXCEPT !.should_ignore = TRUE]
  ELSE record_transition(cfg, s, new_state, timestamp)

should_ignore_work_item(s) == s.should_ignore
get_total_productive_hours(s) == s.total_productive_hours
get_total_paused_hours(s) == s.total_paused_hours
get_total_time_all_states(s) == DictSum(s.time_accumulator) + DictSum(s.paused_time_accumulator)

\* ---------------------------------------------------------------------
\* Stack construction from a revision history
\* A revision has revision (number), state and changed_date (None when the
\* field is empty, else the parsed instant).
\* ---------------------------------------------------------------------
RECURSIVE InsertByRevision(_, _)
InsertByRevision(sorted, r) ==
  IF sorted = <<>> THEN <<r>>
  ELSE IF sorted[Len(sorted)].revision <= r.revision THEN Append(sorted, r)
  ELSE Append(InsertByRevision(SubSeq(sorted, 1, Len(sorted) - 1), r), sorted[Len(sorted)])

\* variant: the revisions are applied in the order received
revisions_as_received(revs) == revs

\* sorted(revision_history, key=revision): stable
RECURSIVE sorted_revisions(_)
sorted_revisions(revs) ==
  IF revs = <<>> THEN <<>>
  ELSE InsertByRevision(sorted_revisions(SubSeq(revs, 1, Len(revs) - 1)), revs[Len(revs)])

\* a changed_date string that datetime.fromisoformat rejects
Malformed == <<"not-a-date", "">>
\* _parse_timestamp of a non-empty string: the instant, or ValueError
is_iso_format(timestamp_str) == timestamp_str # Malformed
parse_timestamp(timestamp_str) == Val(timestamp_str)

\* the loop over the sorted revisions: an empty changed_date is skipped, a
\* ValueError of _parse_timestamp leaves the loop and the constructor
RECURSIVE PushAll(_, _, _)
PushAll(cfg, s, revs) ==
  IF revs = <<>> THEN s
  ELSE IF ~IsSome(Head(revs).changed_date) THEN PushAll(cfg, s, Tail(revs))
  ELSE IF ~is_iso_format(Head(revs).changed_date) THEN Raised("ValueError")
  ELSE PushAll(cfg, push_state(cfg, s, Head(revs).state, parse_timestamp(Head(revs).changed_date)),
               Tail(revs))

from_revision_history(cfg, revision_history) ==
  PushAll(cfg, NewStack, sorted_revisions(revision_history))

\* the timeframe is handed on to the stack as given
create_stack_from_work_item(revision_history, state_config, office_hours_config, timeframe_start, timeframe_end) ==
  from_revision_history(
    [office_start_hour |-> office_hours_config.office_start_hour,
     office_end_hour |-> office_hours_config.office_end_hour,
     max_hours_per_day |-> office_hours_config.max_hours_per_day,
     timezone |-> office_hours_config.timezone_str,
     timeframe_start |-> timeframe_start, timeframe_end |-> timeframe_end,
     productive_states |-> state_config.productive_states,
     pause_stopper_states |-> state_config.pause_stopper_states,
     completion_states |-> state_config.completion_states,
     ignored_states |-> state_config.ignored_states],
    revision_history)

\* ---------------------------------------------------------------------
\* EfficiencyCalculator
\* A scoring configuration sc holds hours in hundredths of an hour, scores
\* and the cap in hundredths of a percent, the bonus percentage and the
\* per-day bonus rates in hundredths.  A work item has state,
\* work_item_type, original_estimate (hundredths of an hour, 0 when not
\* set), start_date, target_date and closed_date (optional instants; the
\* service delivers them as UTC timestamps).
\* ---------------------------------------------------------------------
DefaultScoringConfig ==
  [completion_bonus_percentage |-> 20,
   max_efficiency_cap |-> 15000,
   max_hours_per_day |-> 8,
   office_start_hour |-> 9,
   office_end_hour |-> 17,
   timezone |-> "America/Mexico_City",
   very_early_days |-> 7, early_days |-> 3, slightly_early_days |-> 1,
   early_delivery_scores |-> [very_early |-> 13000, early |-> 12000,
                              slightly_early |-> 11000, on_time |-> 10000],
   early_delivery_bonuses |-> [very_early |-> 100, early |-> 50, slightly_early |-> 25],
   late_delivery_scores |-> [late_1_3 |-> 9000, late_4_7 |-> 8000,
                             late_8_14 |-> 7000, late_15_plus |-> 6000],
   late_penalty_mitigation |-> [late_1_3 |-> 200, late_4_7 |-> 400,
                                late_8_14 |-> 600, late_15_plus |-> 800],
   default_work_item_hours |-> [user_story |-> 800, task |-> 400, bug |-> 200, default |-> 400]]

\* str.lower() on the labels of the model
lower(str) ==
  CASE str = "Closed" -> "closed"
    [] str = "Done" -> "done"
    [] str = "Resolved" -> "resolved"
    [] str = "Active" -> "active"
    [] str = "New" -> "new"
    [] str = "Blocked" -> "blocked"
    [] str = "Removed" -> "removed"
    [] str = "Bug" -> "bug"
    [] str = "Task" -> "task"
    [] str = "User Story" -> "user story"
    [] str = "Epic" -> "epic"
    [] OTHER -> str

\* seconds of wall clock [from, to] of one day, capped at max_hours_per_day
DayHours(sc, from, to) ==
  IF from < to THEN Min(to - from, sc.max_hours_per_day * SecPerHour) ELSE 0

RECURSIVE BetweenDatesLoop(_, _, _, _)
BetweenDatesLoop(sc, d, start_date, end_date) ==
  LET first == date(start_date)
      last == date(end_date)
      start_tod == start_date % SecPerDay
      end_tod == end_date % SecPerDay
      nine == 9 * SecPerHour
      five == 17 * SecPerHour
      today ==
        IF weekday(d) >= 5 THEN 0
        ELSE IF d = first /\ d = last THEN DayHours(sc, Max(start_tod, nine), Min(end_tod, five))
        ELSE IF d = first THEN DayHours(sc, Max(start_tod, nine), five)
        ELSE IF d = last THEN DayHours(sc, nine, Min(end_tod, five))
        ELSE sc.max_hours_per_day * SecPerHour
  IN  IF d > last THEN 0
      ELSE today + BetweenDatesLoop(sc, d + 1, start_date, end_date)

\* hundredths of an hour; the office window is the literal 09:00-17:00 of
\* the timestamps' own wall clock
calculate_business_hours_between_dates(sc, start_date, end_date) ==
  IF start_date >= end_date THEN 0
  ELSE RoundDiv(BetweenDatesLoop(sc, date(start_date), start_date, end_date), 36)

default_hours_for_type(sc, work_item_type) ==
  LET t == lower(work_item_type)
  IN  IF t = "user story" THEN sc.default_work_item_hours.user_story
      ELSE IF t = "task" THEN sc.default_work_item_hours.task
      ELSE IF t = "bug" THEN sc.default_work_item_hours.bug
      ELSE sc.default_work_item_hours.default

\* variant: the date-based estimate has no 2-hour floor
calculate_estimated_time_no_floor(sc, work_item) ==
  IF work_item.original_estimate > 0
  THEN work_item.original_estimate
  ELSE IF IsSome(work_item.start_date) /\ IsSome(work_item.target_date)
  THEN calculate_business_hours_between_dates(sc, Val(work_item.start_date),
                                              Val(work_item.target_date))
  ELSE default_hours_for_type(sc, work_item.work_item_type)

calculate_estimated_time_from_work_item(sc, work_item) ==
  IF work_item.original_estimate > 0
  THEN work_item.original_estimate
  ELSE IF IsSome(work_item.start_date) /\ IsSome(work_item.target_date)
  THEN Max(calculate_business_hours_between_dates(sc, Val(work_item.start_date),
                                                  Val(work_item.target_date)), 200)
  ELSE default_hours_for_type(sc, work_item.work_item_type)

\* (closed - target) in hundredths of a day; the modelled dates differ by
\* multiples of 864 seconds
SecPerCentiDay == 864
days_difference(target, closed) ==
  IF closed >= target THEN (closed - target) \div SecPerCentiDay
  ELSE 0 - ((target - closed) \div SecPerCentiDay)

\* round(days_difference, 1), in tenths of a day
round_days(dd) == IF dd >= 0 THEN RoundDiv(dd, 10) ELSE 0 - RoundDiv(0 - dd, 10)

NeutralDelivery ==
  [delivery_score |-> 10000, timing_bonus_hours |-> 0, late_penalty_mitigation |-> 0,
   days_difference |-> 0]

\* timing_bonus_hours is in 1/10000 hour: hundredths of a day times a rate
\* in hundredths of an hour per day
calculate_early_delivery_bonus(sc, dd) ==
  LET pick == IF dd <= 0 - sc.very_early_days * 100
              THEN <<sc.early_delivery_scores.very_early, Abs(dd) * sc.early_delivery_bonuses.very_early>>
              ELSE IF dd <= 0 - sc.early_days * 100
              THEN <<sc.early_delivery_scores.early, Abs(dd) * sc.early_delivery_bonuses.early>>
              ELSE IF dd <= 0 - sc.slightly_early_days * 100
              THEN <<sc.early_delivery_scores.slightly_early,
                     Abs(dd) * sc.early_delivery_bonuses.slightly_early>>
              ELSE <<sc.early_delivery_scores.on_time, 0>>
  IN  [delivery_score |-> pick[1], timing_bonus_hours |-> pick[2],
       late_penalty_mitigation |-> 0, days_difference |-> round_days(dd)]

\* variant: the late buckets exclude their upper boundary
calculate_late_delivery_penalty_strict(sc, dd) ==
  LET pick == IF dd < 300
              THEN <<sc.late_delivery_scores.late_1_3, sc.late_penalty_mitigation.late_1_3>>
              ELSE IF dd < 700
              THEN <<sc.late_delivery_scores.late_4_7, sc.late_penalty_mitigation.late_4_7>>
              ELSE IF dd < 1400
              THEN <<sc.late_delivery_scores.late_8_14, sc.late_penalty_mitigation.late_8_14>>
              ELSE <<sc.late_delivery_scores.late_15_plus, sc.late_penalty_mitigation.late_15_plus>>
  IN  [delivery_score |-> pick[1], timing_bonus_hours |-> 0,
       late_penalty_mitigation |-> pick[2], days_difference |-> round_days(dd)]

calculate_late_delivery_penalty(sc, dd) ==
  LET pick == IF dd <= 300
              THEN <<sc.late_delivery_scores.late_1_3, sc.late_penalty_mitigation.late_1_3>>
              ELSE IF dd <= 700
              THEN <<sc.late_delivery_scores.late_4_7, sc.late_penalty_mitigation.late_4_7>>
              ELSE IF dd <= 1400
              THEN <<sc.late_delivery_scores.late_8_14, sc.late_penalty_mitigation.late_8_14>>
              ELSE <<sc.late_delivery_scores.late_15_plus, sc.late_penalty_mitigation.late_15_plus>>
  IN  [delivery_score |-> pick[1], timing_bonus_hours |-> 0,
       late_penalty_mitigation |-> pick[2], days_difference |-> round_days(dd)]

calculate_delivery_timing(sc, work_item) ==
  IF ~IsSome(work_item.target_date) \/ ~IsSome(work_item.closed_date)
  THEN NeutralDelivery
  ELSE LET dd == days_difference(Val(work_item.target_date), Val(work_item.closed_date))
       IN  IF dd <= 0 THEN calculate_early_delivery_bonus(sc, dd)
           ELSE calculate_late_delivery_penalty(sc, dd)

empty_efficiency_metrics ==
  [active_time_hours |-> 0, paused_time_hours |-> 0, total_time_hours |-> 0,
   estimated_time_hours |-> 0, efficiency_percentage |-> 0, fair_efficiency_score |-> 0,
   delivery_score |-> 0, completion_bonus |-> 0, delivery_timing_bonus |-> 0,
   days_ahead_behind |-> 0, state_breakdown |-> EmptyDict,
   paused_state_breakdown |-> EmptyDict, was_reopened |-> FALSE,
   active_after_reopen |-> 0, is_completed |-> FALSE, should_ignore |-> FALSE]

ignored_work_item_metrics ==
  [empty_efficiency_metrics EXCEPT !.should_ignore = TRUE]

\* the item's current state against the literal completion names
is_completed_state(work_item) ==
  lower(work_item.state) \in {"closed", "done", "resolved"}

\* variant: the score is not capped
fair_efficiency_score_uncapped(sc, numerator, denominator) ==
  IF denominator > 0 THEN RoundDiv(numerator * 100, denominator) ELSE 0

\* numerator in 1/10000 hour, denominator in hundredths of an hour;
\* hundredths of a percent
fair_efficiency_score(sc, numerator, denominator) ==
  IF denominator > 0
  THEN Min(RoundDiv(numerator * 100, denominator), sc.max_efficiency_cap)
  ELSE 0

\* the metrics record of a stack that is not ignored, with the estimate and
\* the delivery timing of the item
efficiency_metrics_of_stack(sc, work_item, state_stack, estimated_hours, delivery_metrics) ==
  LET productive_hours == get_total_productive_hours(state_stack)
      paused_hours == get_total_paused_hours(state_stack)
      total_hours == get_total_time_all_states(state_stack)
      completion_bonus == IF is_completed_state(work_item)
                          THEN estimated_hours * sc.completion_bonus_percentage
                          ELSE 0
      numerator == productive_hours * 100 + completion_bonus
                   + delivery_metrics.timing_bonus_hours
      denominator == estimated_hours + delivery_metrics.late_penalty_mitigation
  IN  [active_time_hours |-> productive_hours,
       paused_time_hours |-> paused_hours,
       total_time_hours |-> total_hours,
       estimated_time_hours |-> estimated_hours,
       efficiency_percentage |->
         IF total_hours - paused_hours > 0
         THEN RoundDiv(productive_hours * 10000, total_hours - paused_hours) ELSE 0,
       fair_efficiency_score |-> fair_efficiency_score(sc, numerator, denominator),
       delivery_score |-> delivery_metrics.delivery_score,
       completion_bonus |-> RoundDiv(completion_bonus, 100),
       delivery_timing_bonus |-> RoundDiv(delivery_metrics.timing_bonus_hours, 100),
       days_ahead_behind |-> delivery_metrics.days_difference,
       state_breakdown |-> state_stack.time_accumulator,
       paused_state_breakdown |-> state_stack.paused_time_accumulator,
       was_reopened |-> state_stack.was_reopened,
       active_after_reopen |-> state_stack.active_after_reopen_hours,
       is_completed |-> state_stack.is_completed,
       should_ignore |-> state_stack.should_ignore]

\* the metrics of a stack built from the revision history; an exception of
\* the construction propagates to the caller
metrics_of_stack(sc, work_item, state_stack) ==
  IF IsRaised(state_stack) THEN state_stack
  ELSE IF should_ignore_work_item(state_stack) THEN ignored_work_item_metrics
  ELSE efficiency_metrics_of_stack(sc, work_item, state_stack,
                                   calculate_estimated_time_from_work_item(sc, work_item),
                                   calculate_delivery_timing(sc, work_item))

\* EfficiencyCalculator.calculate_fair_efficiency_metrics(work_item,
\* state_history, state_config): it has no timeframe parameter and builds
\* the stack without one
calculate_fair_efficiency_metrics(sc, work_item, state_history, state_config) ==
  IF Len(state_history) < 2 THEN empty_efficiency_metrics
  ELSE metrics_of_stack(sc, work_item,
         create_stack_from_work_item(
           state_history, state_config,
           [office_start_hour |-> sc.office_start_hour, office_end_hour |-> sc.office_end_hour,
            max_hours_per_day |-> sc.max_hours_per_day, timezone_str |-> sc.timezone],
           None, None))

\* ---------------------------------------------------------------------
\* WorkItemOperations: the delegating call and phase 4 of
\* get_work_items_with_efficiency_optimized
\* ---------------------------------------------------------------------
\* positional parameters EfficiencyCalculator.calculate_fair_efficiency_metrics accepts
CalculatorParameters == 3
\* positional arguments the delegating call passes
DelegatedArguments == 5

\* a Python call: more positional arguments than parameters raises TypeError
\* before the body runs

WorkItemOperations_calculate_fair_efficiency_metrics(sc, work_item, state_history, state_config, timeframe_start, timeframe_end) ==
  IF DelegatedArguments > CalculatorParameters THEN Raised("TypeError")
  ELSE calculate_fair_efficiency_metrics(sc, work_item, state_history, state_config)

should_include_work_item_with_history(state_config, work_item, state_history) ==
  /\ work_item.state \notin state_config.ignored_states
  /\ \A i \in 1..Len(state_history) : state_history[i].state \notin state_config.ignored_states

\* item['efficiency'] after phase 4: None when the item is skipped, the
\* empty dict {} when the call raised
EmptyFallback == [fallback |-> TRUE]
phase4_efficiency(sc, work_item, state_history, state_config, start_date, end_date) ==
  IF ~should_include_work_item_with_history(state_config, work_item, state_history)
  THEN None
  ELSE LET efficiency == WorkItemOperations_calculate_fair_efficiency_metrics(
                           sc, work_item, state_history, state_config, start_date, end_date)
       IN  IF IsRaised(efficiency) THEN Some(EmptyFallback) ELSE Some(efficiency)

\* ---------------------------------------------------------------------
\* Configurations and inputs
\* ---------------------------------------------------------------------
\* state_categories of the default configuration
DefaultStateConfig ==
  [productive_states |-> {"Active", "In Progress", "Development", "Code Review", "Testing"},
   pause_stopper_states |-> {"Stopper", "Blocked", "On Hold", "Waiting"},
   completion_states |-> {"Resolved", "Closed", "Done"},
   ignored_states |-> {"Removed", "Discarded", "Cancelled"}]

StackConfig(start_hour, end_hour, max_hours, tz, tf_start, tf_end) ==
  [office_start_hour |-> start_hour, office_end_hour |-> end_hour,
   max_hours_per_day |-> max_hours, timezone |-> tz,
   timeframe_start |-> tf_start, timeframe_end |-> tf_end,
   productive_states |-> DefaultStateConfig.productive_states,
   pause_stopper_states |-> DefaultStateConfig.pause_stopper_states,
   completion_states |-> DefaultStateConfig.completion_states,
   ignored_states |-> DefaultStateConfig.ignored_states]

\* the instant at which the wall clock of zone tz shows day d, h:m
At(tz, d, h, m) == d * SecPerDay + h * SecPerHour + m * 60 - UtcOffset(tz)

\* days of the modelled week: day 7 is a Monday, DayOfWeek(n) is n days later
DayOfWeek(n) == 7 + n
Mon == DayOfWeek(0)
Tue == DayOfWeek(1)
Wed == DayOfWeek(2)
Sat == DayOfWeek(5)

\* state labels pushed on the stack: neutral, productive, paused, completion, ignored
Labels == {"New", "Active", "Blocked", "Closed", "Removed"}
\* event timestamps, on the wall clock of the configured zone
EventTimes(tz) == {At(tz, Mon, 9, 0), At(tz, Mon, 17, 0), At(tz, Tue, 9, 0), At(tz, Tue, 17, 0)}

\* the default business hours, without and with a query timeframe (Tuesday)
StackConfigs ==
  {StackConfig(9, 17, 8, "America/Mexico_City", None, None),
   StackConfig(9, 17, 8, "America/Mexico_City", Some(Tue), Some(Tue))}

\* inputs of the clock
Timeframes == {<<None, None>>, <<Some(Tue), Some(Tue)>>, <<Some(Tue), None>>, <<None, Some(Mon)>>}
ClockConfigs ==
  {StackConfig(w[1], w[2], 8, tz, tf[1], tf[2]) :
     w \in {<<9, 17>>, <<9, 19>>}, tz \in Zones, tf \in Timeframes}
ClockTimes(tz) ==
  {At(tz, Mon, 8, 0), At(tz, Mon, 9, 0), At(tz, Mon, 13, 0), At(tz, Mon, 13, 1),
   At(tz, Mon, 13, 2), At(tz, Mon, 17, 0), At(tz, Mon, 19, 0), At(tz, Tue, 9, 0),
   At(tz, Tue, 17, 0), At(tz, Wed, 10, 0), At(tz, Sat, 10, 0)}
ClockLabels == {"Active", "New", "Blocked"}

\* inputs of the calculator
\* the default state categories, and those of a team whose process completes
\* items in Done only
StateConfigs ==
  {DefaultStateConfig, [DefaultStateConfig EXCEPT !.completion_states = {"Done"}]}
ScoringConfigs ==
  {DefaultScoringConfig,
   [DefaultScoringConfig EXCEPT !.max_efficiency_cap = 10000,
                                !.completion_bonus_percentage = 50,
                                !.timezone = "UTC"]}
RevisionSymbols ==
  {<<"New", Some(At("America/Mexico_City", Mon, 9, 0))>>,
   <<"Active", Some(At("America/Mexico_City", Mon, 9, 0))>>,
   <<"Active", None>>,
   <<"Closed", Some(At("America/Mexico_City", Mon, 17, 0))>>,
   <<"Removed", Some(At("America/Mexico_City", Mon, 9, 0))>>,
   <<"Removed", None>>}
\* revision lists as the service returns them: numbered in list order
Histories ==
  UNION {{[i \in 1..n |-> [revision |-> i, state |-> f[i][1], changed_date |-> f[i][2]]] :
            f \in [1..n -> RevisionSymbols]} : n \in 0..MaxRevisions}
Noon(d) == d * SecPerDay + 12 * SecPerHour
\* <<start_date, target_date, closed_date>>
ItemDates ==
  {<<None, None, None>>,
   <<Some(Noon(Mon)), Some(Noon(Tue)), None>>,
   <<Some(Noon(Tue)), Some(Noon(Mon)), None>>,
   <<None, Some(Noon(Tue)), Some(Noon(Tue) - 7 * SecPerDay)>>,
   <<None, Some(Noon(Tue)), Some(Noon(Tue) + 10 * SecPerDay)>>}
\* the work item type only matters for items without an estimate
WorkItems ==
  {w \in [state : {"Active", "Closed"}, work_item_type : {"Bug", "Epic"},
          original_estimate : {0, 100, 800},
          start_date : {ds[1] : ds \in ItemDates},
          target_date : {ds[2] : ds \in ItemDates},
          closed_date : {ds[3] : ds \in ItemDates}] :
     /\ <<w.start_date, w.target_date, w.closed_date>> \in ItemDates
     /\ w.original_estimate > 0 => w.work_item_type = "Bug"}

\* ---------------------------------------------------------------------
\* State
\*   cfg, stack, history: a stack under construction and the events pushed
\*   clk:  one measurement of the clock (inputs and results)
\*   calc: one scoring of a work item (inputs and results)
\*   timing: one delivery-timing evaluation and its histogram bucket
\*   kpi:  the records handed to the per-developer aggregation and its result
\*   est:  one date-based estimate and the clock's measure of the same period
\*   build: a revision list as received and the stack constructed from it
\*   fetch: one run of the parallel revision fetch: the batch tasks, the
\*          items' revisions fields and the collecting thread's results
\* ---------------------------------------------------------------------
VARIABLES cfg, stack, history, clk, calc, timing, kpi, est, build, fetch
vars == <<cfg, stack, history, clk, calc, timing, kpi, est, build, fetch>>

Off == [pc |-> "off"]

\* ---------------------------------------------------------------------
\* Specification of the stack: any sequence of push_state calls
\* ---------------------------------------------------------------------
Init ==
  /\ fetch = Off
  /\ build = Off
  /\ est = Off
  /\ cfg \in StackConfigs
  /\ stack = NewStack
  /\ history = <<>>
  /\ clk = Off
  /\ calc = Off
  /\ timing = Off
  /\ kpi = Off

PushState ==
  /\ Len(history) < MaxEvents
  /\ \E new_state \in Labels, timestamp \in EventTimes(cfg.timezone) :
       /\ stack' = push_state(cfg, stack, new_state, timestamp)
       /\ history' = Append(history, [state |-> new_state, timestamp |-> timestamp])
  /\ UNCHANGED <<cfg, clk, calc, timing, kpi, est, build, fetch>>

Next == PushState

Spec == Init /\ [][Next]_vars

\* configurations that list a completion or a productive label as ignored too
OverlapConfigs ==
  {[StackConfig(9, 17, 8, "America/Mexico_City", None, None)
      EXCEPT !.ignored_states = @ \cup {"Closed"}],
   [StackConfig(9, 17, 8, "America/Mexico_City", None, None)
      EXCEPT !.ignored_states = @ \cup {"Active"}]}

\* the stack under such a configuration
InitOverlap ==
  /\ fetch = Off
  /\ build = Off
  /\ est = Off
  /\ cfg \in OverlapConfigs
  /\ stack = NewStack
  /\ history = <<>>
  /\ clk = Off
  /\ calc = Off
  /\ timing = Off
  /\ kpi = Off

SpecOverlap == InitOverlap /\ [][Next]_vars

\* business hours whose office window (09:00-19:00) is longer than the
\* daily cap of 8 hours
LongWindowConfigs ==
  {StackConfig(9, 19, 8, "UTC", None, None),
   StackConfig(9, 19, 8, "America/Mexico_City", None, None)}

InitLongWindow ==
  /\ fetch = Off
  /\ cfg \in LongWindowConfigs
  /\ stack = NewStack
  /\ history = <<>>
  /\ clk = Off
  /\ calc = Off
  /\ timing = Off
  /\ kpi = Off
  /\ est = Off
  /\ build = Off

SpecLongWindow == InitLongWindow /\ [][Next]_vars

\* The stack of one work item built without a timeframe filter
InitUnfiltered ==
  /\ fetch = Off
  /\ build = Off
  /\ est = Off
  /\ cfg = StackConfig(9, 17, 8, "America/Mexico_City", None, None)
  /\ stack = NewStack
  /\ history = <<>>
  /\ clk = Off
  /\ calc = Off
  /\ timing = Off
  /\ kpi = Off

SpecUnfiltered == InitUnfiltered /\ [][Next]_vars

\* ---------------------------------------------------------------------
\* Specification of the clock: one measurement of a period t1 < t2 < t3
\* ---------------------------------------------------------------------
InitClock ==
  /\ fetch = Off
  /\ build = Off
  /\ est = Off
  /\ cfg \in ClockConfigs
  /\ stack = NewStack
  /\ history = <<>>
  /\ calc = Off
  /\ timing = Off
  /\ kpi = Off
  /\ \E t1 \in ClockTimes(cfg.timezone), t2 \in ClockTimes(cfg.timezone),
        t3 \in ClockTimes(cfg.timezone), st \in ClockLabels :
       /\ t1 < t2 /\ t2 < t3
       /\ clk = [pc |-> "ready", t1 |-> t1, t2 |-> t2, t3 |-> t3, state |-> st,
                 d12 |-> 0, d23 |-> 0, d13 |-> 0, all13 |-> 0, credited |-> 0]

MeasurePeriod ==
  /\ clk.pc = "ready"
  /\ clk' = [clk EXCEPT
       !.pc = "done",
       !.d12 = calculate_business_hours_in_period(cfg, clk.t1, clk.t2, FALSE),
       !.d23 = calculate_business_hours_in_period(cfg, clk.t2, clk.t3, FALSE),
       !.d13 = calculate_business_hours_in_period(cfg, clk.t1, clk.t3, FALSE),
       !.all13 = calculate_business_hours_in_period(cfg, clk.t1, clk.t3, TRUE),
       !.credited = calculate_time_in_state(cfg, clk.t1, clk.t3, clk.state)]
  /\ UNCHANGED <<cfg, stack, history, calc, timing, kpi, est, build, fetch>>

NextClock == MeasurePeriod

SpecClock == InitClock /\ [][NextClock]_vars

\* ---------------------------------------------------------------------
\* Specification of the scoring: one work item with its revision list,
\* scored by the calculator or by phase 4 of the optimized query
\* ---------------------------------------------------------------------
InitCalc ==
  /\ fetch = Off
  /\ build = Off
  /\ est = Off
  /\ cfg = StackConfig(9, 17, 8, "America/Mexico_City", None, None)
  /\ stack = NewStack
  /\ history = <<>>
  /\ clk = Off
  /\ timing = Off
  /\ kpi = Off
  /\ \E sc \in ScoringConfigs, wi \in WorkItems, h \in Histories, tf \in {<<None, None>>, <<Some(Tue), Some(Tue)>>}, stc \in StateConfigs :
       calc = [pc |-> "ready", sc |-> sc, work_item |-> wi, state_history |-> h,
               state_config |-> stc,
               start_date |-> tf[1], end_date |-> tf[2], result |-> None]

\* EfficiencyCalculator.calculate_fair_efficiency_metrics
Score ==
  /\ calc.pc = "ready"
  /\ calc' = [calc EXCEPT
       !.pc = "scored",
       !.result = Some(calculate_fair_efficiency_metrics(calc.sc, calc.work_item,
                                                         calc.state_history, calc.state_config))]
  /\ UNCHANGED <<cfg, stack, history, clk, timing, kpi, est, build, fetch>>

\* phase 4 of get_work_items_with_efficiency_optimized for one item
Phase4 ==
  /\ calc.pc = "ready"
  /\ calc' = [calc EXCEPT
       !.pc = "phase4",
       !.result = phase4_efficiency(calc.sc, calc.work_item, calc.state_history,
                                    calc.state_config, calc.start_date, calc.end_date)]
  /\ UNCHANGED <<cfg, stack, history, clk, timing, kpi, est, build, fetch>>

NextCalc == Score \/ Phase4

SpecCalc == InitCalc /\ [][NextCalc]_vars

\* ---------------------------------------------------------------------
\* Properties
\* ---------------------------------------------------------------------

\* C1: after any sequence of push_state calls containing an event whose state
\* is ignored (at any position), should_ignore_work_item() is true; later
\* events do not reset it.
C1_IgnoredAnywherePoisons ==
  (\E i \in 1..Len(history) : history[i].state \in cfg.ignored_states)
     => should_ignore_work_item(stack)

\* an ignored event pushed first, followed by recorded events
C1_Witness ==
  /\ Len(history) = 3
  /\ history[1].state = "Removed"
  /\ history[2].state = "Active"
  /\ history[3].state = "Closed"
  /\ Len(stack.transitions) = 2
  /\ should_ignore_work_item(stack)

IsReopenSequence(h) ==
  /\ Len(h) = 4
  /\ h[1].state \in cfg.productive_states
  /\ h[2].state \in cfg.completion_states
  /\ h[3].state \in cfg.productive_states
  /\ h[4].state \in cfg.completion_states
  /\ h[1].timestamp < h[2].timestamp
  /\ h[2].timestamp < h[3].timestamp
  /\ h[3].timestamp < h[4].timestamp

\* C2: after productive -> completion -> productive -> completion (Active 9:00,
\* Closed 17:00, Active next day 9:00, Closed next day 17:00) was_reopened is
\* true and active_after_reopen_hours is exactly the productive hours of the
\* second Active interval; the first Active interval is not included.
C2_ReopenCreditsSecondInterval ==
  IsReopenSequence(history) =>
    /\ stack.was_reopened
    /\ stack.active_after_reopen_hours =
         calculate_time_in_state(cfg, history[3].timestamp, history[4].timestamp,
                                 history[3].state)

\* the sequence of the claim under the default configuration: both Active
\* intervals have productive hours, only the second is credited
C2_Witness ==
  /\ IsReopenSequence(history)
  /\ history[1].timestamp = At(cfg.timezone, Mon, 9, 0)
  /\ history[2].timestamp = At(cfg.timezone, Mon, 17, 0)
  /\ history[3].timestamp = At(cfg.timezone, Tue, 9, 0)
  /\ history[4].timestamp = At(cfg.timezone, Tue, 17, 0)
  /\ ~IsSome(cfg.timeframe_start)
  /\ stack.was_reopened
  /\ stack.active_after_reopen_hours > 0
  /\ stack.total_productive_hours = 2 * stack.active_after_reopen_hours

\* the events that were recorded as transitions
Recorded == SelectSeq(history, LAMBDA e : e.state \notin cfg.ignored_states)
\* category of the intervals that a total adds up
InKind(st, kind) ==
  CASE kind = "productive" -> st \in cfg.productive_states
    [] kind = "paused" -> st \notin cfg.productive_states /\ st \in cfg.pause_stopper_states
    [] kind = "tracked" -> st \in cfg.productive_states \/ st \notin cfg.pause_stopper_states
    [] OTHER -> TRUE
\* business hours of the interval between recorded events i and i + 1
IntervalHours(r, i) ==
  calculate_time_in_state(cfg, r[i].timestamp, r[i + 1].timestamp, r[i].state)
\* sum of the durations noted on transitions 1..n-1 whose state is of a kind
RECURSIVE SumClosed(_, _, _)
SumClosed(tr, i, kind) ==
  IF i >= Len(tr) THEN 0
  ELSE (IF InKind(tr[i].state, kind) THEN tr[i].time_in_state ELSE 0)
       + SumClosed(tr, i + 1, kind)
\* the same for one state label
RECURSIVE SumClosedIn(_, _, _, _)
SumClosedIn(tr, i, kind, st) ==
  IF i >= Len(tr) THEN 0
  ELSE (IF tr[i].state = st /\ InKind(st, kind) THEN tr[i].time_in_state ELSE 0)
       + SumClosedIn(tr, i + 1, kind, st)
ClosedStates(tr, kind) ==
  {tr[i].state : i \in {j \in 1..(Len(tr) - 1) : InKind(tr[j].state, kind)}}

\* transition i is recorded event i
TransitionsAreRecorded(r, tr) ==
  /\ Len(tr) = Len(r)
  /\ \A i \in 1..Len(r) : tr[i].state = r[i].state /\ tr[i].timestamp = r[i].timestamp

\* the totals are sums over transitions 1..n-1, whose last interval runs
\* from recorded event n-1 to n; event n has opened an interval of duration 0
OpenIntervalUncounted(r, tr, n) ==
  /\ stack.total_productive_hours = SumClosed(tr, 1, "productive")
  /\ stack.total_paused_hours = SumClosed(tr, 1, "paused")
  /\ get_total_time_all_states(stack) = SumClosed(tr, 1, "all")
  /\ n >= 1 =>
       /\ stack.current_state = Some(r[n].state)
       /\ stack.entry_time = Some(r[n].timestamp)
       /\ tr[n].time_in_state = 0
       /\ stack.total_calendar_time = r[n].timestamp - r[1].timestamp
  /\ n >= 2 => tr[n - 1].time_in_state = IntervalHours(r, n - 1)
  /\ n <= 1 =>
       /\ stack.total_productive_hours = 0
       /\ stack.total_paused_hours = 0
       /\ get_total_time_all_states(stack) = 0
       /\ stack.total_calendar_time = 0

\* C18: the interval opened by the last recorded event is never closed:
\* after recording e1..en the totals are the sums over the n-1 intervals
\* between consecutive recorded events, a single recorded event yields
\* all-zero totals, and the state of en has contributed no duration.
C18_LastIntervalStaysOpen ==
  /\ TransitionsAreRecorded(Recorded, stack.transitions)
  /\ OpenIntervalUncounted(Recorded, stack.transitions, Len(stack.transitions))

\* three recorded events; the last one opens a productive interval over a
\* working day that is not counted
C18_Witness ==
  /\ Len(Recorded) = 3
  /\ Len(history) = 3
  /\ history[1].state = "Active"
  /\ history[2].state = "Closed"
  /\ history[3].state = "Active"
  /\ history[1].timestamp = At(cfg.timezone, Mon, 9, 0)
  /\ history[2].timestamp = At(cfg.timezone, Mon, 17, 0)
  /\ history[3].timestamp = At(cfg.timezone, Tue, 9, 0)
  /\ ~IsSome(cfg.timeframe_start)
  /\ stack.total_productive_hours > 0
  /\ stack.total_productive_hours = IntervalHours(Recorded, 1)

\* C19: each closed interval's duration is added to exactly one per-state
\* map (paused labels to the paused map; productive, completion and unknown
\* labels to the state map); total_productive_hours is the sum of the
\* state-map entries of productive labels, total_paused_hours the sum of the
\* paused map, get_total_time_all_states the sum of both maps.
C19_AccountingConsistency ==
  /\ DOMAIN stack.time_accumulator = ClosedStates(stack.transitions, "tracked")
  /\ DOMAIN stack.paused_time_accumulator = ClosedStates(stack.transitions, "paused")
  /\ \A st \in DOMAIN stack.time_accumulator :
       stack.time_accumulator[st] = SumClosedIn(stack.transitions, 1, "tracked", st)
  /\ \A st \in DOMAIN stack.paused_time_accumulator :
       stack.paused_time_accumulator[st] = SumClosedIn(stack.transitions, 1, "paused", st)
  /\ stack.total_productive_hours =
       SumOver(stack.time_accumulator,
               (DOMAIN stack.time_accumulator) \cap cfg.productive_states)
  /\ stack.total_paused_hours = DictSum(stack.paused_time_accumulator)
  /\ get_total_time_all_states(stack) =
       DictSum(stack.time_accumulator) + DictSum(stack.paused_time_accumulator)

\* intervals of an unknown, a productive and a paused label were closed,
\* each with hours
C19_Witness ==
  /\ Len(history) = 4
  /\ history[1].state = "New"
  /\ history[2].state = "Active"
  /\ history[3].state = "Blocked"
  /\ "New" \in DOMAIN stack.time_accumulator
  /\ stack.time_accumulator["New"] > 0
  /\ stack.total_productive_hours > 0
  /\ stack.total_paused_hours > 0
  /\ DOMAIN stack.paused_time_accumulator = {"Blocked"}

\* C20: push_state with a state of the ignored set changes only
\* should_ignore: the open interval, the transitions, both maps, the totals,
\* was_reopened, active_after_reopen_hours and is_completed stay as they
\* are, also when the label is listed as completion or productive too.
C20_IgnoredPushFrame ==
  [][(Len(history') = Len(history) + 1
        /\ history'[Len(history')].state \in cfg.ignored_states)
       => stack' = [stack EXCEPT !.should_ignore = TRUE]]_vars

\* a label that is completion as well as ignored was pushed on an open
\* interval: nothing but the mark changed
C20_Witness ==
  /\ Len(history) = 3
  /\ history[3].state = "Closed"
  /\ "Closed" \in cfg.ignored_states \cap cfg.completion_states
  /\ Len(stack.transitions) = 2
  /\ stack.current_state = Some(history[2].state)
  /\ stack.entry_time = Some(history[2].timestamp)
  /\ stack.should_ignore
  /\ ~stack.is_completed

\* the recorded events carry non-decreasing timestamps
Ascending(r) == \A i \in 1..(Len(r) - 1) : r[i].timestamp <= r[i + 1].timestamp

\* seconds of day d credited to the productive interval from recorded
\* event i to event i + 1
SecondsOnDay(start_time, end_time, d) ==
  IF /\ start_time < end_time
     /\ date(astimezone(start_time, cfg.timezone)) <= d
     /\ d <= date(astimezone(end_time, cfg.timezone))
  THEN DailySeconds(cfg, d, start_time, end_time, FALSE)
  ELSE 0
CreditedOnDay(r, i, d) ==
  IF r[i].state \in cfg.productive_states
  THEN SecondsOnDay(apply_timeframe_filtering(cfg, r[i].timestamp, r[i + 1].timestamp)[1],
                    apply_timeframe_filtering(cfg, r[i].timestamp, r[i + 1].timestamp)[2], d)
  ELSE 0

RECURSIVE ProductiveSecondsOnDay(_, _, _)
ProductiveSecondsOnDay(r, i, d) ==
  IF i >= Len(r) THEN 0
  ELSE CreditedOnDay(r, i, d) + ProductiveSecondsOnDay(r, i + 1, d)

\* calendar days the modelled events touch
EventDays == {Mon - 1, Mon, Tue, Tue + 1}

DailyCapRespected(r) ==
  \A d \in EventDays : ProductiveSecondsOnDay(r, 1, d) <= cfg.max_hours_per_day * SecPerHour

\* C24: the productive hours credited to any single calendar day, summed
\* over all productive intervals of an event sequence in time order, never
\* exceed max_hours_per_day, also when the office window is longer than the
\* cap.
C24_DailyCapAcrossIntervals ==
  Ascending(history) => DailyCapRespected(Recorded)

\* the day-by-day credits are what the stack has accumulated
DailyCreditsAreTheTotal(r) ==
  Ascending(history) =>
    Abs(stack.total_productive_hours * 36
        - (ProductiveSecondsOnDay(r, 1, Mon - 1) + ProductiveSecondsOnDay(r, 1, Mon)
           + ProductiveSecondsOnDay(r, 1, Tue) + ProductiveSecondsOnDay(r, 1, Tue + 1)))
      <= 18 * Len(r)
DailyCreditsMatchStack == DailyCreditsAreTheTotal(Recorded)

\* a completion-state event is followed, at any later position, by a
\* productive-state event
CompletionThenProductive(r) ==
  \E i, j \in 1..Len(r) :
    /\ i < j
    /\ r[i].state \in cfg.completion_states
    /\ r[j].state \in cfg.productive_states
\* the same with the two events next to each other
CompletionThenProductiveAdjacent(r) ==
  \E i \in 1..(Len(r) - 1) :
    /\ r[i].state \in cfg.completion_states
    /\ r[i + 1].state \in cfg.productive_states

\* C25: was_reopened is true after any event sequence in which a
\* completion-state event is followed at any later position by a
\* productive-state event, also with neutral or paused states recorded in
\* between (Closed -> New -> Active).
C25_ReopenDetectedAtAnyDistance ==
  (Ascending(history) /\ CompletionThenProductive(Recorded)) => stack.was_reopened

\* was_reopened is exactly the adjacent pattern
ReopenIsAdjacentPattern ==
  stack.was_reopened <=> CompletionThenProductiveAdjacent(Recorded)

\* no accumulated duration of s is negative
NonNegativeTotals(s) ==
  /\ s.total_productive_hours >= 0
  /\ s.total_paused_hours >= 0
  /\ s.active_after_reopen_hours >= 0
  /\ \A k \in DOMAIN s.time_accumulator : s.time_accumulator[k] >= 0
  /\ \A k \in DOMAIN s.paused_time_accumulator : s.paused_time_accumulator[k] >= 0
\* every entry of map a is kept in map b with at least its value
MapGrows(a, b) == \A k \in DOMAIN a : k \in DOMAIN b /\ b[k] >= a[k]
\* no accumulated duration of s is larger than in t
TotalsGrow(s, t) ==
  /\ t.total_productive_hours >= s.total_productive_hours
  /\ t.total_paused_hours >= s.total_paused_hours
  /\ t.active_after_reopen_hours >= s.active_after_reopen_hours
  /\ MapGrows(s.time_accumulator, t.time_accumulator)
  /\ MapGrows(s.paused_time_accumulator, t.paused_time_accumulator)

\* C26: after every push_state, whatever the order of the timestamps, the
\* productive, paused and after-reopen totals and every per-state entry
\* are >= 0 and did not decrease in the push; active_after_reopen_hours is
\* at most total_productive_hours and positive only if was_reopened.
C26_TotalsMonotone ==
  /\ [](/\ NonNegativeTotals(stack)
        /\ stack.active_after_reopen_hours <= stack.total_productive_hours
        /\ stack.active_after_reopen_hours > 0 => stack.was_reopened)
  /\ [][TotalsGrow(stack, stack')]_vars

\* the second revision is dated before the first, so the first Active
\* interval adds nothing; the item is reopened and worked on afterwards
C26_Witness ==
  /\ Len(history) = 4
  /\ history[2].timestamp < history[1].timestamp
  /\ history[4].timestamp > history[3].timestamp
  /\ history[1].state = "Active"
  /\ history[2].state = "Closed"
  /\ history[3].state = "Active"
  /\ stack.was_reopened
  /\ stack.active_after_reopen_hours > 0
  /\ stack.total_productive_hours = stack.active_after_reopen_hours

\* ---------------------------------------------------------------------
\* Properties of the scoring (SpecCalc)
\* ---------------------------------------------------------------------
Scored == calc.pc = "scored"
Record == Val(calc.result)

MondayScenario ==
  /\ calc.sc = DefaultScoringConfig
  /\ calc.work_item.original_estimate = 800
  /\ calc.work_item.state = "Closed"
  /\ ~IsSome(calc.work_item.target_date)
  /\ ~IsSome(calc.work_item.closed_date)
  /\ calc.state_history =
       <<[revision |-> 1, state |-> "New",
          changed_date |-> Some(At(calc.sc.timezone, Mon, 9, 0))],
         [revision |-> 2, state |-> "Active",
          changed_date |-> Some(At(calc.sc.timezone, Mon, 9, 0))],
         [revision |-> 3, state |-> "Closed",
          changed_date |-> Some(At(calc.sc.timezone, Mon, 17, 0))]>>

\* C4: estimate 8h, state Closed, no target/closed date, history New(Mon 09:00)
\* -> Active(Mon 09:00) -> Closed(Mon 17:00) in the office timezone, office
\* hours 9-17, cap 8: active_time_hours = 8.0, completion_bonus = 1.6,
\* fair_efficiency_score = 120.0.
C4_MondayScenario ==
  (Scored /\ MondayScenario) =>
    /\ Record.active_time_hours = 800
    /\ Record.completion_bonus = 160
    /\ Record.fair_efficiency_score = 12000

IsIgnoredState(st) == st \in DefaultStateConfig.ignored_states
\* revisions that reach the stack as a transition
RecordedEvents(h) ==
  Cardinality({i \in 1..Len(h) : IsSome(h[i].changed_date) /\ ~IsIgnoredState(h[i].state)})
IgnoredSighted(h) ==
  \E i \in 1..Len(h) : IsSome(h[i].changed_date) /\ IsIgnoredState(h[i].state)
IgnoredInHistory(h) == \E i \in 1..Len(h) : IsIgnoredState(h[i].state)
ZeroValued(r) ==
  /\ r.active_time_hours = 0 /\ r.paused_time_hours = 0 /\ r.total_time_hours = 0
  /\ r.estimated_time_hours = 0 /\ r.efficiency_percentage = 0
  /\ r.fair_efficiency_score = 0 /\ r.delivery_score = 0 /\ r.completion_bonus = 0
  /\ r.delivery_timing_bonus = 0 /\ r.days_ahead_behind = 0

\* C5: the record is zero-valued whenever fewer than 2 events were recorded
\* on the stack (revisions without a timestamp and ignored-state revisions
\* are not recorded) or an ignored state was sighted, and its should_ignore
\* flag is true exactly when an ignored state occurs in the history.
C5_ZeroRecordAndIgnoreFlag ==
  Scored =>
    /\ (RecordedEvents(calc.state_history) < 2 \/ IgnoredSighted(calc.state_history))
         => ZeroValued(Record)
    /\ Record.should_ignore <=> IgnoredInHistory(calc.state_history)

\* the stack the scoring would account the item on if the query timeframe
\* reached it
ProductiveHoursInTimeframe ==
  get_total_productive_hours(
    create_stack_from_work_item(
      calc.state_history, DefaultStateConfig,
      [office_start_hour |-> calc.sc.office_start_hour,
       office_end_hour |-> calc.sc.office_end_hour,
       max_hours_per_day |-> calc.sc.max_hours_per_day,
       timezone_str |-> calc.sc.timezone],
      calc.start_date, calc.end_date))

\* C9: when the query has a start/end date, the scoring of an item yields a
\* record whose active_time_hours holds no productive hours outside the
\* timeframe: the timeframe reaches the stack that accounts the item's time.
C9_TimeframeReachesStack ==
  (calc.pc \in {"scored", "phase4"} /\ IsSome(calc.result)
     /\ (IsSome(calc.start_date) \/ IsSome(calc.end_date))) =>
    /\ "active_time_hours" \in DOMAIN Record
    /\ Record.active_time_hours <= ProductiveHoursInTimeframe

HasBothDates(w) == IsSome(w.start_date) /\ IsSome(w.target_date)
Accounted == Scored /\ Len(calc.state_history) >= 2 /\ ~Record.should_ignore

\* C12: the completion bonus equals estimate * completion_bonus_percentage
\* exactly when the item's current state is a member of the configured
\* completion-state set, and 0 otherwise, for every state configuration.
C12_CompletionBonusFollowsConfig ==
  Accounted =>
    Record.completion_bonus =
      (IF calc.work_item.state \in calc.state_config.completion_states
       THEN RoundDiv(Record.estimated_time_hours * calc.sc.completion_bonus_percentage, 100)
       ELSE 0)

\* revisions of the item that carry a timestamp
TimestampedRevisions(h) == SelectSeq(h, LAMBDA r : IsSome(r.changed_date))
\* phase 4 has processed an item it includes, with >= 2 timestamped revisions
Phase4Included ==
  /\ calc.pc = "phase4"
  /\ should_include_work_item_with_history(calc.state_config, calc.work_item, calc.state_history)
  /\ Len(TimestampedRevisions(calc.state_history)) >= 2

\* C29: in phase 4 every included item with at least 2 timestamped
\* revisions ends with item['efficiency'] equal to the non-empty record the
\* calculator computes; the delegating call completes without an error and
\* the {} fallback of the exception handler is not used.
C29_Phase4StoresCalculatorRecord ==
  Phase4Included =>
    /\ calc.result # Some(EmptyFallback)
    /\ calc.result = Some(calculate_fair_efficiency_metrics(
                            calc.sc, calc.work_item, calc.state_history, calc.state_config))

\* phase 4 stores {} for every item it includes
Phase4AlwaysFallsBack ==
  (calc.pc = "phase4" /\ IsSome(calc.result)) => calc.result = Some(EmptyFallback)

\* ---------------------------------------------------------------------
\* Properties of the clock (SpecClock)
\* ---------------------------------------------------------------------
Measured == clk.pc = "done"
TimeOfDay(t) == astimezone(t, cfg.timezone) % SecPerDay
InOfficeHours(t) ==
  /\ weekday(date(astimezone(t, cfg.timezone))) < 5
  /\ TimeOfDay(t) >= cfg.office_start_hour * SecPerHour
  /\ TimeOfDay(t) <= cfg.office_end_hour * SecPerHour
WindowHours == cfg.office_end_hour - cfg.office_start_hour

\* C6: for instants t1 < t2 < t3 on business days inside office hours and
\* under the daily cap, the capped business hours of (t1,t3) equal those of
\* (t1,t2) plus those of (t2,t3), each rounded to 2 decimals.
C6_ClockAdditivity ==
  (Measured /\ InOfficeHours(clk.t1) /\ InOfficeHours(clk.t2) /\ InOfficeHours(clk.t3)
     /\ WindowHours <= cfg.max_hours_per_day) =>
    clk.d13 = clk.d12 + clk.d23

\* C7: an interval covering exactly the office window of one business day,
\* the window longer than max_hours_per_day, yields max_hours_per_day with
\* the cap and the full window length when all hours are counted.
C7_FullDayCap ==
  (Measured /\ InOfficeHours(clk.t1)
     /\ date(astimezone(clk.t1, cfg.timezone)) = date(astimezone(clk.t3, cfg.timezone))
     /\ TimeOfDay(clk.t1) = cfg.office_start_hour * SecPerHour
     /\ TimeOfDay(clk.t3) = cfg.office_end_hour * SecPerHour
     /\ WindowHours > cfg.max_hours_per_day) =>
    /\ clk.d13 = cfg.max_hours_per_day * 100
    /\ clk.all13 = WindowHours * 100

TimeframeContains(t1, t3) ==
  /\ IsSome(timeframe_start_dt(cfg)) => Val(timeframe_start_dt(cfg)) <= t1
  /\ IsSome(timeframe_end_dt(cfg)) => t3 <= Val(timeframe_end_dt(cfg))
TimeframeDisjoint(t1, t3) ==
  \/ IsSome(timeframe_start_dt(cfg)) /\ t3 <= Val(timeframe_start_dt(cfg))
  \/ IsSome(timeframe_end_dt(cfg)) /\ Val(timeframe_end_dt(cfg)) <= t1

\* C8: clipping a productive interval to a timeframe that contains it credits
\* the unclipped hours; to a timeframe disjoint from it (before or after)
\* credits 0; intervals of non-productive states are never clipped.
C8_TimeframeClip ==
  Measured =>
    /\ (clk.state \in cfg.productive_states /\ TimeframeContains(clk.t1, clk.t3))
         => clk.credited = clk.d13
    /\ (clk.state \in cfg.productive_states /\ TimeframeDisjoint(clk.t1, clk.t3))
         => clk.credited = 0
    /\ clk.state \notin cfg.productive_states => clk.credited = clk.all13

\* a productive interval with business hours that lies before the timeframe
\* and is credited nothing
C8_Witness ==
  /\ Measured
  /\ clk.state \in cfg.productive_states
  /\ IsSome(timeframe_start_dt(cfg))
  /\ clk.t3 < Val(timeframe_start_dt(cfg))
  /\ clk.d13 > 0
  /\ clk.credited = 0
\* ---------------------------------------------------------------------
\* Delivery timing and the delivery-timing histogram of
\* WorkItemOperations._calculate_developer_metrics
\* ---------------------------------------------------------------------
\* the histogram bucket of days_ahead_behind (tenths of a day)
delivery_timing_bucket(days_diff) ==
  IF days_diff <= 0
  THEN IF days_diff <= 0 - 10 THEN "early" ELSE "on_time"
  ELSE IF days_diff <= 30 THEN "late_1_3"
  ELSE IF days_diff <= 70 THEN "late_4_7"
  ELSE IF days_diff <= 140 THEN "late_8_14"
  ELSE "late_15_plus"

\* closed - target of the evaluated items, in hundredths of a day
TimingOffsets ==
  {0 - 800, 0 - 700, 0 - 698, 0 - 300, 0 - 298, 0 - 100, 0 - 98, 0 - 50, 0 - 4, 0,
   4, 50, 100, 300, 304, 700, 704, 1000, 1400, 1404, 2000}
TimingItems ==
  {[target_date |-> Some(Noon(d)), closed_date |-> Some(Noon(d) + off * SecPerCentiDay)] :
     d \in {Tue, Wed}, off \in TimingOffsets}
  \cup {[target_date |-> None, closed_date |-> Some(Noon(Tue))],
        [target_date |-> Some(Noon(Tue)), closed_date |-> None],
        [target_date |-> None, closed_date |-> None]}

\* ---------------------------------------------------------------------
\* Specification of the delivery timing: one item is timed by the
\* calculator and its days_ahead_behind is put in the histogram
\* ---------------------------------------------------------------------
InitTiming ==
  /\ fetch = Off
  /\ build = Off
  /\ est = Off
  /\ cfg = StackConfig(9, 17, 8, "America/Mexico_City", None, None)
  /\ stack = NewStack
  /\ history = <<>>
  /\ clk = Off
  /\ calc = Off
  /\ kpi = Off
  /\ \E sc \in ScoringConfigs, wi \in TimingItems :
       timing = [pc |-> "ready", sc |-> sc, work_item |-> wi,
                 metrics |-> NeutralDelivery, bucket |-> ""]

TimeDelivery ==
  /\ timing.pc = "ready"
  /\ timing' = [timing EXCEPT
       !.pc = "done",
       !.metrics = calculate_delivery_timing(timing.sc, timing.work_item),
       !.bucket = delivery_timing_bucket(
                    calculate_delivery_timing(timing.sc, timing.work_item).days_difference)]
  /\ UNCHANGED <<cfg, stack, history, clk, calc, kpi, est, build, fetch>>

NextTiming == TimeDelivery

SpecTiming == InitTiming /\ [][NextTiming]_vars

\* ---------------------------------------------------------------------
\* Properties of the delivery timing (SpecTiming)
\* ---------------------------------------------------------------------
Timed == timing.pc = "done"
\* closed - target of the timed item, in hundredths of a day
TimedOffset ==
  (Val(timing.work_item.closed_date) - Val(timing.work_item.target_date)) \div SecPerCentiDay
TimedBothDates ==
  IsSome(timing.work_item.target_date) /\ IsSome(timing.work_item.closed_date)

\* <<delivery score, bonus hours (1/10000 h), mitigation>> of the reference table
ReferenceTiming(d) ==
  IF d <= 0 - 700 THEN <<13000, (0 - d) * 100, 0>>
  ELSE IF d <= 0 - 300 THEN <<12000, (0 - d) * 50, 0>>
  ELSE IF d <= 0 - 100 THEN <<11000, (0 - d) * 25, 0>>
  ELSE IF d <= 0 THEN <<10000, 0, 0>>
  ELSE IF d <= 300 THEN <<9000, 0, 200>>
  ELSE IF d <= 700 THEN <<8000, 0, 400>>
  ELSE IF d <= 1400 THEN <<7000, 0, 600>>
  ELSE <<6000, 0, 800>>

\* C11: _calculate_delivery_timing equals the reference table for every
\* days_difference: a missing target or closed date gives (100, 0, 0, 0);
\* otherwise the score, bonus hours and mitigation of the bucket of
\* closed - target, with the upper boundary of every bucket inclusive.
C11_DeliveryTimingTable ==
  Timed =>
    IF ~TimedBothDates
    THEN timing.metrics = [delivery_score |-> 10000, timing_bonus_hours |-> 0,
                           late_penalty_mitigation |-> 0, days_difference |-> 0]
    ELSE /\ timing.metrics.delivery_score = ReferenceTiming(TimedOffset)[1]
         /\ timing.metrics.timing_bonus_hours = ReferenceTiming(TimedOffset)[2]
         /\ timing.metrics.late_penalty_mitigation = ReferenceTiming(TimedOffset)[3]

\* an item closed exactly 3 days late is scored in the 1-3 bucket
C11_Witness ==
  /\ Timed
  /\ TimedBothDates
  /\ TimedOffset = 300
  /\ timing.metrics.delivery_score = 9000
  /\ timing.metrics.late_penalty_mitigation = 200

\* the late bucket's delivery score in the scoring configuration
LateBucketScore(bucket) ==
  CASE bucket = "late_1_3" -> timing.sc.late_delivery_scores.late_1_3
    [] bucket = "late_4_7" -> timing.sc.late_delivery_scores.late_4_7
    [] bucket = "late_8_14" -> timing.sc.late_delivery_scores.late_8_14
    [] OTHER -> timing.sc.late_delivery_scores.late_15_plus

\* C16: the histogram bucket chosen from an item's days_ahead_behind agrees
\* with the bucket the calculator used for its delivery score: an item
\* counted early or on_time has no late mitigation and at least the on-time
\* score, an item counted in a late bucket has that bucket's score.
C16_HistogramAgreesWithScoring ==
  (Timed /\ TimedBothDates) =>
    IF timing.bucket \in {"early", "on_time"}
    THEN /\ timing.metrics.late_penalty_mitigation = 0
         /\ timing.metrics.delivery_score >= timing.sc.early_delivery_scores.on_time
    ELSE timing.metrics.delivery_score = LateBucketScore(timing.bucket)

\* ---------------------------------------------------------------------
\* Developer scoring weights: ConfigLoader, WorkItemOperations.__init__ and
\* EfficiencyCalculator.__init__.  A dict is a function on its keys; weights
\* are in hundredths.
\* ---------------------------------------------------------------------
WeightKeys == {"fair_efficiency", "delivery_score", "completion_rate", "on_time_delivery"}
\* developer_scoring.weights of ConfigLoader._get_default_config
DefaultFileWeights ==
  [k \in WeightKeys |->
     CASE k = "fair_efficiency" -> 40
       [] k = "delivery_score" -> 30
       [] k = "completion_rate" -> 20
       [] OTHER -> 10]
\* developer_score_weights of the calculator's default configuration
DefaultDeveloperScoreWeights ==
  [k \in WeightKeys |->
     CASE k = "fair_efficiency" -> 40
       [] k = "delivery_score" -> 30
       [] k = "completion_rate" -> 20
       [] OTHER -> 10]

\* dict.update / merge_dicts on a flat dict
DictUpdate(base, upd) ==
  [k \in (DOMAIN base) \cup (DOMAIN upd) |-> IF k \in DOMAIN upd THEN upd[k] ELSE base[k]]

\* developer_scoring.weights after load_config: the file's weights with the
\* missing section filled from the defaults
loaded_weights(file_weights) ==
  IF IsSome(file_weights) THEN Val(file_weights) ELSE DefaultFileWeights

\* the configuration handed to EfficiencyCalculator: the efficiency_scoring
\* section (which received every key of scoring_config), the
\* developer_scoring section (key 'weights') and the business hours
combined_config(file_weights, scoring_weights) ==
  [weights |-> IF IsSome(scoring_weights)
               THEN DictUpdate(loaded_weights(file_weights), Val(scoring_weights))
               ELSE loaded_weights(file_weights),
   developer_score_weights |-> scoring_weights]

\* self.config['developer_score_weights'] of the calculator after
\* _update_config: the key 'weights' is stored beside it and never read
calculator_weights(combined) ==
  IF IsSome(combined.developer_score_weights)
  THEN DictUpdate(DefaultDeveloperScoreWeights, Val(combined.developer_score_weights))
  ELSE DefaultDeveloperScoreWeights

\* ---------------------------------------------------------------------
\* Per-developer aggregation (WorkItemOperations).  An item has
\* assigned_to, state and efficiency; a value that is a quotient is the
\* pair <<numerator, denominator>> until it is rounded.
\* ---------------------------------------------------------------------
SignedRoundDiv(n, d) == IF n >= 0 THEN RoundDiv(n, d) ELSE 0 - RoundDiv(0 - n, d)

\* overall score in hundredths of a percent, from quotients in hundredths of
\* a percent
calculate_developer_score(weights, completion_rate, avg_fair_efficiency, avg_delivery_score, on_time_delivery) ==
  LET capped == IF on_time_delivery[1] > 10000 * on_time_delivery[2]
                THEN <<10000, 1>> ELSE on_time_delivery
      d == avg_fair_efficiency[2] * avg_delivery_score[2] * completion_rate[2] * capped[2]
      n == (avg_fair_efficiency[1] * weights["fair_efficiency"]) * (d \div avg_fair_efficiency[2])
           + (avg_delivery_score[1] * weights["delivery_score"]) * (d \div avg_delivery_score[2])
           + (completion_rate[1] * weights["completion_rate"]) * (d \div completion_rate[2])
           + (capped[1] * weights["on_time_delivery"]) * (d \div capped[2])
  IN  RoundDiv(n, d * 100)

EfficiencyNumbers ==
  {"active_time_hours", "paused_time_hours", "total_time_hours", "estimated_time_hours",
   "efficiency_percentage", "fair_efficiency_score", "delivery_score", "completion_bonus",
   "delivery_timing_bonus", "days_ahead_behind"}
\* `efficiency_data and any(efficiency_data.values())`; the stack_summary of
\* a record is non-empty only when should_ignore or a delivery score is set
has_efficiency_data(e) ==
  /\ e # EmptyFallback
  /\ \/ \E f \in EfficiencyNumbers : e[f] # 0
     \/ e.was_reopened \/ e.is_completed \/ e.should_ignore
     \/ DOMAIN e.state_breakdown # {}
     \/ DOMAIN e.paused_state_breakdown # {}

EmptyTimingCounts ==
  [early |-> 0, on_time |-> 0, late_1_3 |-> 0, late_4_7 |-> 0, late_8_14 |-> 0,
   late_15_plus |-> 0]
\* the counters of _calculate_developer_metrics before its loop
EmptyCounters ==
  [completed_items |-> 0, items_with_efficiency |-> 0, on_time_count |-> 0,
   total_fair_efficiency |-> 0, total_delivery_score |-> 0, total_active_hours |-> 0,
   total_estimated_hours |-> 0, total_days_ahead_behind |-> 0, reopened_items |-> 0,
   delivery_timing_counts |-> EmptyTimingCounts]

\* variant: a delivery up to three days late counts as on time
count_efficiency_lenient(acc, e) ==
  [acc EXCEPT
     !.items_with_efficiency = @ + 1,
     !.total_fair_efficiency = @ + e.fair_efficiency_score,
     !.total_delivery_score = @ + e.delivery_score,
     !.total_active_hours = @ + e.active_time_hours,
     !.total_estimated_hours = @ + e.estimated_time_hours,
     !.total_days_ahead_behind = @ + e.days_ahead_behind,
     !.reopened_items = @ + (IF e.was_reopened THEN 1 ELSE 0),
     !.delivery_timing_counts[delivery_timing_bucket(e.days_ahead_behind)] = @ + 1,
     !.on_time_count = @ + (IF e.days_ahead_behind <= 30 THEN 1 ELSE 0)]

count_efficiency(acc, e) ==
  [acc EXCEPT
     !.items_with_efficiency = @ + 1,
     !.total_fair_efficiency = @ + e.fair_efficiency_score,
     !.total_delivery_score = @ + e.delivery_score,
     !.total_active_hours = @ + e.active_time_hours,
     !.total_estimated_hours = @ + e.estimated_time_hours,
     !.total_days_ahead_behind = @ + e.days_ahead_behind,
     !.reopened_items = @ + (IF e.was_reopened THEN 1 ELSE 0),
     !.delivery_timing_counts[delivery_timing_bucket(e.days_ahead_behind)] = @ + 1,
     !.on_time_count = @ + (IF e.days_ahead_behind <= 0 THEN 1 ELSE 0)]

\* one iteration of the loop over the developer's items
count_item(acc, item) ==
  IF has_efficiency_data(item.efficiency)
  THEN count_efficiency(
         [acc EXCEPT !.completed_items = @ + (IF is_completed_state(item) THEN 1 ELSE 0)],
         item.efficiency)
  ELSE [acc EXCEPT !.completed_items = @ + (IF is_completed_state(item) THEN 1 ELSE 0)]

RECURSIVE CountItems(_, _)
CountItems(acc, items) ==
  IF items = <<>> THEN acc
  ELSE CountItems(count_item(acc, Head(items)), Tail(items))

empty_developer_metrics(total_assigned_items) ==
  [total_work_items |-> IF IsSome(total_assigned_items) THEN Val(total_assigned_items) ELSE 0,
   completed_items |-> 0, completion_rate |-> 0, on_time_delivery_percentage |-> 0,
   average_fair_efficiency |-> 0, average_delivery_score |-> 0,
   overall_developer_score |-> 0, total_active_hours |-> 0, total_estimated_hours |-> 0,
   average_days_ahead_behind |-> 0, reopened_items_handled |-> 0, reopened_rate |-> 0,
   delivery_timing_breakdown |-> EmptyTimingCounts]

\* variant: the supplied total is not used
total_items_seen(work_items, total_assigned_items) == Len(work_items)

total_items_of(work_items, total_assigned_items) ==
  IF IsSome(total_assigned_items) THEN Val(total_assigned_items) ELSE Len(work_items)

\* x / n as a quotient, 0 when there is nothing to divide by
Quotient(x, n) == IF n > 0 THEN <<x, n>> ELSE <<0, 1>>
\* round(x / n, 2) of such a quotient
RoundQuotient(x, n) == IF n > 0 THEN RoundDiv(x, n) ELSE 0
SignedRoundQuotient(x, n) == IF n > 0 THEN SignedRoundDiv(x, n) ELSE 0

\* the metrics record from the counters of the loop
developer_metrics_of(weights, acc, total_items) ==
  [total_work_items |-> total_items,
   completed_items |-> acc.completed_items,
   completion_rate |-> RoundQuotient(acc.completed_items * 10000, total_items),
   on_time_delivery_percentage |->
     RoundQuotient(acc.on_time_count * 10000, acc.items_with_efficiency),
   average_fair_efficiency |->
     RoundQuotient(acc.total_fair_efficiency, acc.items_with_efficiency),
   average_delivery_score |->
     RoundQuotient(acc.total_delivery_score, acc.items_with_efficiency),
   overall_developer_score |->
     calculate_developer_score(
       weights,
       Quotient(acc.completed_items * 10000, total_items),
       Quotient(acc.total_fair_efficiency, acc.items_with_efficiency),
       Quotient(acc.total_delivery_score, acc.items_with_efficiency),
       Quotient(acc.on_time_count * 10000, acc.items_with_efficiency)),
   total_active_hours |-> acc.total_active_hours,
   total_estimated_hours |-> acc.total_estimated_hours,
   average_days_ahead_behind |->
     SignedRoundQuotient(acc.total_days_ahead_behind * 10, acc.items_with_efficiency),
   reopened_items_handled |-> acc.reopened_items,
   reopened_rate |->
     RoundQuotient(acc.reopened_items * 10000, acc.items_with_efficiency),
   delivery_timing_breakdown |-> acc.delivery_timing_counts]

calculate_developer_metrics(weights, work_items, total_assigned_items) ==
  IF work_items = <<>> THEN empty_developer_metrics(total_assigned_items)
  ELSE developer_metrics_of(weights, CountItems(EmptyCounters, work_items),
                            total_items_of(work_items, total_assigned_items))

\* developers in the order their first item appears (dict insertion order)
RECURSIVE developers_of(_, _)
developers_of(work_items, seen) ==
  IF work_items = <<>> THEN seen
  ELSE developers_of(Tail(work_items),
                     IF \E i \in 1..Len(seen) : seen[i] = Head(work_items).assigned_to
                     THEN seen ELSE Append(seen, Head(work_items).assigned_to))

items_of(work_items, developer) ==
  SelectSeq(work_items, LAMBDA item : item.assigned_to = developer)

\* assigned_counts.get(developer) if assigned_counts else None
total_assigned_of(assigned_counts, developer) ==
  IF IsSome(assigned_counts) /\ DOMAIN Val(assigned_counts) # {}
     /\ developer \in DOMAIN Val(assigned_counts)
  THEN Some(Val(assigned_counts)[developer])
  ELSE None

\* state_breakdown of an item as the bottleneck loop reads it
breakdown_of(item) ==
  IF item.efficiency = EmptyFallback THEN EmptyDict ELSE item.efficiency.state_breakdown

\* all_state_occurrences: <<states in insertion order, state -> count and
\* hours>>; the states of one breakdown are taken in an arbitrary fixed order
RECURSIVE add_breakdown(_, _, _)
add_breakdown(occ, breakdown, keys) ==
  IF keys = {} THEN occ
  ELSE LET st == CHOOSE k \in keys : TRUE
       IN  add_breakdown(
             IF st \in DOMAIN occ[2]
             THEN <<occ[1], [occ[2] EXCEPT ![st] = [count |-> @.count + 1,
                                                   total_hours |-> @.total_hours + breakdown[st]]]>>
             ELSE <<Append(occ[1], st),
                    [k \in (DOMAIN occ[2]) \cup {st} |->
                       IF k = st THEN [count |-> 1, total_hours |-> breakdown[st]]
                       ELSE occ[2][k]]>>,
             breakdown, keys \ {st})

RECURSIVE state_occurrences(_, _)
state_occurrences(occ, items) ==
  IF items = <<>> THEN occ
  ELSE state_occurrences(
         add_breakdown(occ, breakdown_of(Head(items)), DOMAIN breakdown_of(Head(items))),
         Tail(items))

RECURSIVE occurrences_of_developers(_, _, _)
occurrences_of_developers(occ, work_items, developers) ==
  IF developers = <<>> THEN occ
  ELSE occurrences_of_developers(
         state_occurrences(occ, items_of(work_items, Head(developers))),
         work_items, Tail(developers))

\* list.sort(key=average_time_hours, reverse=True): stable
RECURSIVE insert_bottleneck(_, _)
insert_bottleneck(sorted, b) ==
  IF sorted = <<>> THEN <<b>>
  ELSE IF sorted[Len(sorted)].average_time_hours >= b.average_time_hours
  THEN Append(sorted, b)
  ELSE Append(insert_bottleneck(SubSeq(sorted, 1, Len(sorted) - 1), b), sorted[Len(sorted)])

RECURSIVE sort_bottlenecks(_, _, _)
sort_bottlenecks(sorted, states, occ) ==
  IF states = <<>> THEN sorted
  ELSE sort_bottlenecks(
         insert_bottleneck(sorted,
           [state |-> Head(states),
            average_time_hours |-> RoundDiv(Quotient(occ[Head(states)].total_hours,
                                                     occ[Head(states)].count)[1],
                                            Quotient(occ[Head(states)].total_hours,
                                                     occ[Head(states)].count)[2]),
            occurrences |-> occ[Head(states)].count]),
         Tail(states), occ)

\* bottlenecks[:5]
top_bottlenecks(occ) ==
  SubSeq(sort_bottlenecks(<<>>, occ[1], occ[2]), 1, Min(5, Len(occ[1])))

RECURSIVE SumMetric(_, _, _)
SumMetric(developer_metrics, developers, field) ==
  IF developers = <<>> THEN 0
  ELSE developer_metrics[Head(developers)][field]
       + SumMetric(developer_metrics, Tail(developers), field)

\* variant: the empty answer reports one developer
empty_kpi_one_developer ==
  [overall_summary |-> [total_work_items |-> 0, total_developers |-> 1,
                        average_fair_efficiency |-> 0, average_delivery_score |-> 0,
                        total_active_hours |-> 0],
   developer_metrics |-> EmptyDict,
   bottlenecks |-> <<>>]

\* the answer for an empty list of work items
empty_kpi ==
  [overall_summary |-> [total_work_items |-> 0, total_developers |-> 0,
                        average_fair_efficiency |-> 0, average_delivery_score |-> 0,
                        total_active_hours |-> 0],
   developer_metrics |-> EmptyDict,
   bottlenecks |-> <<>>]

\* the answer from the per-developer metrics
kpi_of(work_items, developers, developer_metrics) ==
  [overall_summary |->
     [total_work_items |-> Len(work_items),
      total_developers |-> Len(developers),
      average_fair_efficiency |->
        RoundQuotient(SumMetric(developer_metrics, developers, "average_fair_efficiency"), Len(developers)),
      average_delivery_score |->
        RoundQuotient(SumMetric(developer_metrics, developers, "average_delivery_score"), Len(developers)),
      total_active_hours |-> SumMetric(developer_metrics, developers, "total_active_hours")],
   developer_metrics |-> developer_metrics,
   bottlenecks |-> top_bottlenecks(
                     occurrences_of_developers(<<<<>>, EmptyDict>>, work_items, developers))]

metrics_per_developer(weights, work_items, assigned_counts, developers) ==
  [developer \in {developers[i] : i \in 1..Len(developers)} |->
     calculate_developer_metrics(weights, items_of(work_items, developer),
                                 total_assigned_of(assigned_counts, developer))]

calculate_comprehensive_kpi_per_developer(weights, work_items, assigned_counts) ==
  IF work_items = <<>> THEN empty_kpi
  ELSE kpi_of(work_items, developers_of(work_items, <<>>),
              metrics_per_developer(weights, work_items, assigned_counts,
                                    developers_of(work_items, <<>>)))

\* ---------------------------------------------------------------------
\* Inputs of the aggregation
\* ---------------------------------------------------------------------
\* the record of an accounted item
ScoredRecord(fair, delivery, days, reopened, active, estimated) ==
  [empty_efficiency_metrics EXCEPT
     !.fair_efficiency_score = fair, !.delivery_score = delivery,
     !.days_ahead_behind = days, !.was_reopened = reopened,
     !.active_time_hours = active, !.total_time_hours = active,
     !.estimated_time_hours = estimated, !.efficiency_percentage = 10000,
     !.state_breakdown = DictAdd(EmptyDict, "Active", active)]
Fair80 == ScoredRecord(8000, 10000, 0, FALSE, 640, 800)
Fair120 == ScoredRecord(12000, 11000, 0 - 20, FALSE, 960, 800)
Late50 == ScoredRecord(5000, 9000, 20, TRUE, 200, 400)
VeryLate40 == ScoredRecord(4000, 6000, 200, FALSE, 800, 400)
KpiItem(developer, state, efficiency) ==
  [assigned_to |-> developer, state |-> state, efficiency |-> efficiency]
KpiItems ==
  {KpiItem("ana", "Closed", Fair80), KpiItem("ana", "Closed", Fair120),
   KpiItem("ana", "Active", Late50), KpiItem("ana", "Closed", ignored_work_item_metrics),
   KpiItem("ana", "Active", empty_efficiency_metrics), KpiItem("ana", "Closed", EmptyFallback),
   KpiItem("ben", "Closed", Fair80), KpiItem("ben", "Closed", Late50),
   KpiItem("ben", "Closed", VeryLate40),
   KpiItem("ben", "Active", ignored_work_item_metrics)}
\* the total-assigned map: not supplied, for one developer, with a zero total
AssignedCounts ==
  {None, Some("ana" :> 5), Some(("ana" :> 0) @@ ("ben" :> 1))}
\* developer_scoring.weights of the configuration file (None: no section)
FileWeights == {None, Some([k \in WeightKeys |-> 25])}
\* developer_score_weights of scoring_config, from the weight options of the
\* command line (None: no option given)
ScoringWeights == {None, Some("fair_efficiency" :> 70)}

\* ---------------------------------------------------------------------
\* Specification of the aggregation: the query collects items, then
\* calculate_comprehensive_kpi_per_developer aggregates them
\* ---------------------------------------------------------------------
InitKpi ==
  /\ fetch = Off
  /\ build = Off
  /\ est = Off
  /\ cfg = StackConfig(9, 17, 8, "America/Mexico_City", None, None)
  /\ stack = NewStack
  /\ history = <<>>
  /\ clk = Off
  /\ calc = Off
  /\ timing = Off
  /\ \E fw \in FileWeights, sw \in ScoringWeights, ac \in AssignedCounts :
       kpi = [pc |-> "collect", file_weights |-> fw, scoring_weights |-> sw,
              weights |-> calculator_weights(combined_config(fw, sw)),
              work_items |-> <<>>, assigned_counts |-> ac, result |-> None]

CollectItem ==
  /\ kpi.pc = "collect"
  /\ Len(kpi.work_items) < MaxItems
  /\ \E item \in KpiItems : kpi' = [kpi EXCEPT !.work_items = Append(@, item)]
  /\ UNCHANGED <<cfg, stack, history, clk, calc, timing, est, build, fetch>>

Aggregate ==
  /\ kpi.pc = "collect"
  /\ kpi' = [kpi EXCEPT
       !.pc = "done",
       !.result = Some(calculate_comprehensive_kpi_per_developer(
                         kpi.weights, kpi.work_items, kpi.assigned_counts))]
  /\ UNCHANGED <<cfg, stack, history, clk, calc, timing, est, build, fetch>>

NextKpi == CollectItem \/ Aggregate

SpecKpi == InitKpi /\ [][NextKpi]_vars

\* ---------------------------------------------------------------------
\* Properties of the aggregation (SpecKpi)
\* ---------------------------------------------------------------------
Aggregated == kpi.pc = "done"
Kpi == Val(kpi.result)
KpiDevelopers == DOMAIN Kpi.developer_metrics
RecordsOf(developer) == items_of(kpi.work_items, developer)
IsIgnoredRecord(e) == e # EmptyFallback /\ e.should_ignore
\* the developer's records without the ignored records
KeptRecordsOf(developer) ==
  SelectSeq(RecordsOf(developer), LAMBDA item : ~IsIgnoredRecord(item.efficiency))
SuppliedTotal(developer) ==
  IsSome(kpi.assigned_counts) /\ developer \in DOMAIN Val(kpi.assigned_counts)

\* C13: ignored records contribute nothing to items_with_efficiency and to
\* the fair-efficiency, delivery-score, on-time and reopened figures of a
\* developer: the figures equal those of the developer's records with the
\* ignored records left out.
C13_IgnoredRecordsDoNotCount ==
  Aggregated =>
    \A d \in KpiDevelopers :
      LET with == Kpi.developer_metrics[d]
          without == calculate_developer_metrics(kpi.weights, KeptRecordsOf(d),
                                                 total_assigned_of(kpi.assigned_counts, d))
      IN  /\ CountItems(EmptyCounters, RecordsOf(d)).items_with_efficiency
               = CountItems(EmptyCounters, KeptRecordsOf(d)).items_with_efficiency
          /\ with.average_fair_efficiency = without.average_fair_efficiency
          /\ with.average_delivery_score = without.average_delivery_score
          /\ with.on_time_delivery_percentage = without.on_time_delivery_percentage
          /\ with.reopened_rate = without.reopened_rate

CompletedRecords(developer) ==
  Cardinality({i \in 1..Len(kpi.work_items) :
                 /\ kpi.work_items[i].assigned_to = developer
                 /\ kpi.work_items[i].state \in {"Closed", "Done", "Resolved"}})
\* the two completed items of the example, with a supplied total of 5
TwoOfFive(developer) ==
  /\ SuppliedTotal(developer)
  /\ Val(kpi.assigned_counts)[developer] = 5
  /\ RecordsOf(developer) \in
       {<<KpiItem(developer, "Closed", Fair80), KpiItem(developer, "Closed", Fair120)>>,
        <<KpiItem(developer, "Closed", Fair120), KpiItem(developer, "Closed", Fair80)>>}

ConfiguredWeight(k) ==
  IF IsSome(kpi.scoring_weights) /\ k \in DOMAIN Val(kpi.scoring_weights)
  THEN Val(kpi.scoring_weights)[k]
  ELSE IF IsSome(kpi.file_weights) /\ k \in DOMAIN Val(kpi.file_weights)
  THEN Val(kpi.file_weights)[k]
  ELSE DefaultFileWeights[k]

\* C15: the overall developer score is the weighted sum of fair efficiency,
\* delivery score, completion rate and min(100, on-time delivery) under the
\* configured weights: a weight set in developer_scoring.weights of the file
\* or by the command line is the one used, the defaults only when none is set.
C15_ConfiguredWeightsUsed ==
  Aggregated =>
    \A d \in KpiDevelopers :
      LET m == Kpi.developer_metrics[d]
          acc == CountItems(EmptyCounters, RecordsOf(d))
      IN  m.overall_developer_score =
            calculate_developer_score(
              [k \in WeightKeys |-> ConfiguredWeight(k)],
              Quotient(acc.completed_items * 10000, m.total_work_items),
              Quotient(acc.total_fair_efficiency, acc.items_with_efficiency),
              Quotient(acc.total_delivery_score, acc.items_with_efficiency),
              Quotient(acc.on_time_count * 10000, acc.items_with_efficiency))

\* C17: on an empty record list the aggregation returns zero totals and
\* averages, an empty developer map and an empty bottleneck list, with or
\* without a supplied assigned-count map, and does not raise.
C17_EmptyListAggregates ==
  (Aggregated /\ kpi.work_items = <<>>) =>
    /\ ~IsRaised(Kpi)
    /\ Kpi.overall_summary.total_work_items = 0
    /\ Kpi.overall_summary.total_developers = 0
    /\ Kpi.overall_summary.average_fair_efficiency = 0
    /\ Kpi.overall_summary.average_delivery_score = 0
    /\ Kpi.overall_summary.total_active_hours = 0
    /\ DOMAIN Kpi.developer_metrics = {}
    /\ Kpi.bottlenecks = <<>>

\* an empty list aggregated with an assigned-count map supplied
C17_Witness ==
  /\ Aggregated
  /\ kpi.work_items = <<>>
  /\ IsSome(kpi.assigned_counts)
  /\ Kpi.overall_summary.total_developers = 0

\* the counters of the loop of _calculate_developer_metrics over a
\* developer's records
CountersOf(developer) == CountItems(EmptyCounters, RecordsOf(developer))
SumOfTimingCounts(c) ==
  c.early + c.on_time + c.late_1_3 + c.late_4_7 + c.late_8_14 + c.late_15_plus
InPercentRange(x) == 0 <= x /\ x <= 10000
TimingCountsConsistent(acc, m) ==
  /\ m.delivery_timing_breakdown = acc.delivery_timing_counts
  /\ SumOfTimingCounts(acc.delivery_timing_counts) = acc.items_with_efficiency
  /\ acc.on_time_count = acc.delivery_timing_counts.early + acc.delivery_timing_counts.on_time
  /\ acc.reopened_items <= acc.items_with_efficiency
  /\ InPercentRange(m.on_time_delivery_percentage)
  /\ InPercentRange(m.reopened_rate)

\* C27: for any list of items of a developer the six
\* delivery_timing_breakdown counts sum to items_with_efficiency, the
\* on-time count equals early + on_time, and on_time_delivery_percentage
\* and reopened_rate lie within [0, 100].
C27_TimingCountsConsistent ==
  Aggregated =>
    \A d \in KpiDevelopers : TimingCountsConsistent(CountersOf(d), Kpi.developer_metrics[d])

\* one early, one on-time and one late record: two of three on time
C27_Witness ==
  /\ Aggregated
  /\ "ana" \in KpiDevelopers
  /\ CountersOf("ana").items_with_efficiency = 3
  /\ Kpi.developer_metrics["ana"].delivery_timing_breakdown =
       [EmptyTimingCounts EXCEPT !.early = 1, !.on_time = 1, !.late_1_3 = 1]
  /\ Kpi.developer_metrics["ana"].on_time_delivery_percentage = 6667
  /\ Kpi.developer_metrics["ana"].reopened_rate = 3333

\* C28: a developer's completion_rate is within [0, 100] for every
\* combination of the developer's records and the supplied total-assigned
\* count, including a total of 0 or one smaller than the number of completed
\* records.
C28_CompletionRateBounded ==
  Aggregated =>
    \A d \in KpiDevelopers : InPercentRange(Kpi.developer_metrics[d].completion_rate)

\* completion_rate is in range whenever the total is not supplied
CompletionRateBoundedWithoutTotal ==
  (Aggregated /\ ~IsSome(kpi.assigned_counts)) =>
    \A d \in KpiDevelopers : InPercentRange(Kpi.developer_metrics[d].completion_rate)

\* ---------------------------------------------------------------------
\* Specification of the date-based estimate: the calculator's business
\* hours between start_date and target_date, next to the stack clock's
\* measure of the same two instants under the same business hours
\* ---------------------------------------------------------------------
\* office window, daily cap and timezone of the business_hours section
EstimateConfigs ==
  {[DefaultScoringConfig EXCEPT !.office_start_hour = w[1], !.office_end_hour = w[2],
                                !.max_hours_per_day = cap, !.timezone = tz] :
     w \in {<<9, 17>>, <<10, 16>>, <<8, 18>>}, cap \in {8, 6}, tz \in Zones}
\* start and target dates, UTC wall clock
EstimateDates ==
  {At("UTC", Mon, 8, 0), At("UTC", Mon, 9, 0), At("UTC", Mon, 12, 0), At("UTC", Mon, 17, 0),
   At("UTC", Mon, 18, 0), At("UTC", Tue, 12, 0), At("UTC", Wed, 12, 0), At("UTC", Sat, 12, 0)}

\* the stack configuration built from the same business hours, no timeframe
clock_config_of(sc) ==
  StackConfig(sc.office_start_hour, sc.office_end_hour, sc.max_hours_per_day,
              sc.timezone, None, None)

InitEstimate ==
  /\ fetch = Off
  /\ build = Off
  /\ cfg = StackConfig(9, 17, 8, "America/Mexico_City", None, None)
  /\ stack = NewStack
  /\ history = <<>>
  /\ clk = Off
  /\ calc = Off
  /\ timing = Off
  /\ kpi = Off
  /\ \E sc \in EstimateConfigs, start \in EstimateDates, target \in EstimateDates :
       est = [pc |-> "ready", sc |-> sc, start_date |-> start, target_date |-> target,
              office_hours |-> 0, estimated_hours |-> 0, clock_hours |-> 0]

\* _calculate_estimated_time_from_work_item of an item without
\* original_estimate, and the clock on the same instants
EstimateFromDates ==
  /\ est.pc = "ready"
  /\ est' = [est EXCEPT
       !.pc = "done",
       !.office_hours = calculate_business_hours_between_dates(est.sc, est.start_date, est.target_date),
       !.estimated_hours = calculate_estimated_time_from_work_item(est.sc,
            [state |-> "Active", work_item_type |-> "Task", original_estimate |-> 0,
             start_date |-> Some(est.start_date), target_date |-> Some(est.target_date),
             closed_date |-> None]),
       !.clock_hours = calculate_business_hours_in_period(clock_config_of(est.sc),
                                                          est.start_date, est.target_date, FALSE)]
  /\ UNCHANGED <<cfg, stack, history, clk, calc, timing, kpi, build, fetch>>

NextEstimate == EstimateFromDates

SpecEstimate == InitEstimate /\ [][NextEstimate]_vars

\* ---------------------------------------------------------------------
\* Properties of the date-based estimate (SpecEstimate)
\* ---------------------------------------------------------------------
Estimated == est.pc = "done"

\* C21: the business hours the calculator derives from start_date and
\* target_date equal what the stack's clock returns for the same two
\* instants with the daily cap and no timeframe clip, for every configured
\* office window, cap and timezone.
C21_EstimateEqualsClock ==
  Estimated => est.office_hours = est.clock_hours

\* the two agree for the window 09:00-17:00 measured in UTC
EstimateAgreesInUtcNineToFive ==
  (/\ Estimated
   /\ est.sc.timezone = "UTC"
   /\ est.sc.office_start_hour = 9
   /\ est.sc.office_end_hour = 17) => est.office_hours = est.clock_hours

\* ---------------------------------------------------------------------
\* Specification of the stack construction: a revision list is received
\* in any order, with empty and unparsable changed_date fields, and
\* from_revision_history builds the stack from it
\* ---------------------------------------------------------------------
RevisionNumbers == 1..3
ChangedDates ==
  {None, Malformed, Some(At("America/Mexico_City", Mon, 9, 0)),
   Some(At("America/Mexico_City", Mon, 17, 0))}

InitBuild ==
  /\ fetch = Off
  /\ cfg = StackConfig(9, 17, 8, "America/Mexico_City", None, None)
  /\ stack = NewStack
  /\ history = <<>>
  /\ clk = Off
  /\ calc = Off
  /\ timing = Off
  /\ kpi = Off
  /\ est = Off
  /\ build = [pc |-> "receive", revisions |-> <<>>, applied |-> <<>>, result |-> None]

\* one more revision of the item arrives
ReceiveRevision ==
  /\ build.pc = "receive"
  /\ Len(build.revisions) < MaxRevisions
  /\ \E n \in RevisionNumbers, st \in {"Active", "Closed"}, d \in ChangedDates :
       build' = [build EXCEPT
         !.revisions = Append(@, [revision |-> n, state |-> st, changed_date |-> d])]
  /\ UNCHANGED <<cfg, stack, history, clk, calc, timing, kpi, est, fetch>>

\* WorkItemStateStack.from_revision_history(revisions)
BuildStack ==
  /\ build.pc = "receive"
  /\ build' = [build EXCEPT
       !.pc = "built",
       !.applied = sorted_revisions(build.revisions),
       !.result = Some(from_revision_history(cfg, build.revisions))]
  /\ UNCHANGED <<cfg, stack, history, clk, calc, timing, kpi, est, fetch>>

NextBuild == ReceiveRevision \/ BuildStack

SpecBuild == InitBuild /\ [][NextBuild]_vars

\* ---------------------------------------------------------------------
\* Properties of the stack construction (SpecBuild)
\* ---------------------------------------------------------------------
Built == build.pc = "built"
BuiltStack == Val(build.result)
WithRevision(revs, n) == SelectSeq(revs, LAMBDA r : r.revision = n)
DistinctRevisions(revs) ==
  \A i, j \in 1..Len(revs) : i # j => revs[i].revision # revs[j].revision
Permuted(revs, p) == [i \in 1..Len(revs) |-> revs[p[i]]]
Timestamped(revs) == SelectSeq(revs, LAMBDA r : IsSome(r.changed_date))
\* the transitions of stack s are the events evs, in their order
TransitionsFollow(s, evs) ==
  /\ Len(s.transitions) = Len(evs)
  /\ \A i \in 1..Len(evs) :
       /\ s.transitions[i].state = evs[i].state
       /\ s.transitions[i].timestamp = Val(evs[i].changed_date)

\* C22: from_revision_history applies the revisions in ascending revision
\* number, ties in list order; two lists that are permutations of each other
\* with pairwise distinct revision numbers give identical stacks; push_state
\* records the events in the order it is handed them.
C22_AppliedInRevisionOrder ==
  Built =>
    /\ \A i, j \in 1..Len(build.applied) :
         i < j => build.applied[i].revision <= build.applied[j].revision
    /\ \A n \in RevisionNumbers :
         WithRevision(build.applied, n) = WithRevision(build.revisions, n)
    /\ DistinctRevisions(build.revisions) =>
         \A p \in Permutations(1..Len(build.revisions)) :
           from_revision_history(cfg, Permuted(build.revisions, p)) = BuiltStack
    /\ ~IsRaised(BuiltStack) => TransitionsFollow(BuiltStack, Timestamped(build.applied))

\* the closing revision arrives before the activating one; the stack credits
\* the eight office hours of Monday
C22_Witness ==
  /\ Built
  /\ Len(build.revisions) = 2
  /\ build.revisions[1] = [revision |-> 2, state |-> "Closed",
                           changed_date |-> Some(At("America/Mexico_City", Mon, 17, 0))]
  /\ build.revisions[2] = [revision |-> 1, state |-> "Active",
                           changed_date |-> Some(At("America/Mexico_City", Mon, 9, 0))]
  /\ ~IsRaised(BuiltStack)
  /\ BuiltStack.total_productive_hours > 0
  /\ BuiltStack.is_completed

WellFormed(revs) == SelectSeq(revs, LAMBDA r : r.changed_date # Malformed)

\* C23: a revision whose timestamp is missing or malformed does not make
\* the construction raise; it is a no-op and the remaining revisions are
\* processed, so the stack is the one built from the other revisions.
C23_BadTimestampIsNoOp ==
  Built =>
    /\ ~IsRaised(BuiltStack)
    /\ BuiltStack = from_revision_history(cfg, Timestamped(WellFormed(build.revisions)))

\* a revision without a timestamp is skipped
MissingTimestampIsNoOp ==
  (Built /\ WellFormed(build.revisions) = build.revisions) =>
    /\ ~IsRaised(BuiltStack)
    /\ BuiltStack = from_revision_history(cfg, Timestamped(build.revisions))

\* ---------------------------------------------------------------------
\* Parallel revision fetch (get_work_item_revisions_parallel)
\* Work items are their ids.  A run f holds the batches, the state of each
\* batch's future (queued, running, done, failed), the number of items the
\* batch task has processed and failed, each item's revisions field
\* (unset, fetched, empty) and the collecting thread's list and metrics.
\* ---------------------------------------------------------------------
\* [work_items[i:i + batch_size] for i in range(0, len(work_items), batch_size)]
make_batches(work_items, batch_size) ==
  [k \in 1..((Len(work_items) + batch_size - 1) \div batch_size) |->
     SubSeq(work_items, (k - 1) * batch_size + 1, Min(k * batch_size, Len(work_items)))]

\* the run after the batches are submitted to the executor
submit_batches(f) ==
  [f EXCEPT
     !.pc = "collecting",
     !.batches = make_batches(f.work_items, f.batch_size),
     !.future = [k \in 1..Len(make_batches(f.work_items, f.batch_size)) |-> "queued"],
     !.processed = [k \in 1..Len(make_batches(f.work_items, f.batch_size)) |-> 0],
     !.batch_failed = [k \in 1..Len(make_batches(f.work_items, f.batch_size)) |-> 0]]

\* batches whose task a worker thread is running
running_batches(f) == {b \in 1..Len(f.batches) : f.future[b] = "running"}
\* the executor's queue is first in, first out
next_queued(f, b) ==
  /\ f.future[b] = "queued"
  /\ \A c \in 1..(b - 1) : f.future[c] # "queued"

\* fetch_revisions_for_item inside process_batch: the item gets its
\* revisions, or [] when the request raised
fetch_revisions_for_item(f, b, success) ==
  [f EXCEPT
     !.processed[b] = @ + 1,
     !.batch_failed[b] = @ + (IF success THEN 0 ELSE 1),
     !.revisions[f.batches[b][f.processed[b] + 1]] = IF success THEN "fetched" ELSE "empty",
     !.fetch_failed = IF success THEN @ ELSE @ \cup {f.batches[b][f.processed[b] + 1]}]

RECURSIVE SetRevisionsEmpty(_, _)
SetRevisionsEmpty(revisions, items) ==
  IF items = <<>> THEN revisions
  ELSE SetRevisionsEmpty([revisions EXCEPT ![Head(items)] = "empty"], Tail(items))

\* variant: the items of a batch whose task raised are left out
collect_failure_drops_items(f, b) ==
  [f EXCEPT
     !.collected = @ \cup {b},
     !.failed_items = @ + Len(f.batches[b])]

\* the collecting thread's handler for a future that raised
collect_failure(f, b) ==
  [f EXCEPT
     !.collected = @ \cup {b},
     !.revisions = SetRevisionsEmpty(@, f.batches[b]),
     !.all_items = @ \o f.batches[b],
     !.failed_items = @ + Len(f.batches[b])]

\* the collecting thread takes the result of a future that returned
collect_result(f, b) ==
  [f EXCEPT
     !.collected = @ \cup {b},
     !.all_items = @ \o f.batches[b],
     !.revision_calls = @ + f.processed[b],
     !.failed_items = @ + f.batch_failed[b]]

\* ---------------------------------------------------------------------
\* Specification of the parallel revision fetch: worker threads run the
\* batch tasks while the calling thread collects the futures as they
\* complete
\* ---------------------------------------------------------------------
WorkerCounts == 1..2
BatchSizes == 1..MaxItems

InitFetch ==
  /\ cfg = StackConfig(9, 17, 8, "America/Mexico_City", None, None)
  /\ stack = NewStack
  /\ history = <<>>
  /\ clk = Off
  /\ calc = Off
  /\ timing = Off
  /\ kpi = Off
  /\ est = Off
  /\ build = Off
  /\ \E n \in 0..MaxItems, bs \in BatchSizes, w \in WorkerCounts :
       fetch = [pc |-> "ready", work_items |-> [i \in 1..n |-> i],
                batch_size |-> bs, max_workers |-> w,
                batches |-> <<>>, future |-> <<>>, processed |-> <<>>, batch_failed |-> <<>>,
                revisions |-> [i \in 1..n |-> "unset"], fetch_failed |-> {},
                collected |-> {}, all_items |-> <<>>,
                revision_calls |-> 0, failed_items |-> 0, items_processed |-> 0]

\* `if not work_items: return [], {...}`
ReturnEmpty ==
  /\ fetch.pc = "ready"
  /\ fetch.work_items = <<>>
  /\ fetch' = [fetch EXCEPT !.pc = "returned"]
  /\ UNCHANGED <<cfg, stack, history, clk, calc, timing, kpi, est, build>>

\* executor.submit(process_batch, batch) for every batch
SubmitBatches ==
  /\ fetch.pc = "ready"
  /\ fetch.work_items # <<>>
  /\ fetch' = submit_batches(fetch)
  /\ UNCHANGED <<cfg, stack, history, clk, calc, timing, kpi, est, build>>

\* a free worker thread starts the next queued batch
StartBatch ==
  /\ fetch.pc = "collecting"
  /\ Cardinality(running_batches(fetch)) < fetch.max_workers
  /\ \E b \in 1..Len(fetch.batches) :
       /\ next_queued(fetch, b)
       /\ fetch' = [fetch EXCEPT !.future[b] = "running"]
  /\ UNCHANGED <<cfg, stack, history, clk, calc, timing, kpi, est, build>>

\* a running batch task fetches its next item; the request may fail
FetchItem ==
  /\ fetch.pc = "collecting"
  /\ \E b \in running_batches(fetch), success \in BOOLEAN :
       /\ fetch.processed[b] < Len(fetch.batches[b])
       /\ fetch' = fetch_revisions_for_item(fetch, b, success)
  /\ UNCHANGED <<cfg, stack, history, clk, calc, timing, kpi, est, build>>

\* a running batch task returns its result after its last item
BatchReturns ==
  /\ fetch.pc = "collecting"
  /\ \E b \in running_batches(fetch) :
       /\ fetch.processed[b] = Len(fetch.batches[b])
       /\ fetch' = [fetch EXCEPT !.future[b] = "done"]
  /\ UNCHANGED <<cfg, stack, history, clk, calc, timing, kpi, est, build>>

\* a running batch task raises, before or between its items
BatchRaises ==
  /\ fetch.pc = "collecting"
  /\ \E b \in running_batches(fetch) :
       /\ fetch.processed[b] < Len(fetch.batches[b])
       /\ fetch' = [fetch EXCEPT !.future[b] = "failed"]
  /\ UNCHANGED <<cfg, stack, history, clk, calc, timing, kpi, est, build>>

\* as_completed hands the calling thread a completed future
CollectBatch ==
  /\ fetch.pc = "collecting"
  /\ \E b \in (1..Len(fetch.batches)) \ fetch.collected :
       \/ /\ fetch.future[b] = "done"
          /\ fetch' = collect_result(fetch, b)
       \/ /\ fetch.future[b] = "failed"
          /\ fetch' = collect_failure(fetch, b)
  /\ UNCHANGED <<cfg, stack, history, clk, calc, timing, kpi, est, build>>

\* every future is collected: the metrics are completed and the list returned
ReturnItems ==
  /\ fetch.pc = "collecting"
  /\ fetch.collected = 1..Len(fetch.batches)
  /\ fetch' = [fetch EXCEPT !.pc = "returned", !.items_processed = Len(fetch.all_items)]
  /\ UNCHANGED <<cfg, stack, history, clk, calc, timing, kpi, est, build>>

NextFetch ==
  \/ ReturnEmpty
  \/ SubmitBatches
  \/ StartBatch
  \/ FetchItem
  \/ BatchReturns
  \/ BatchRaises
  \/ CollectBatch
  \/ ReturnItems

SpecFetch == InitFetch /\ [][NextFetch]_vars

\* ---------------------------------------------------------------------
\* Properties of the parallel revision fetch (SpecFetch)
\* ---------------------------------------------------------------------
Returned == fetch.pc = "returned"
Occurrences(items, id) == Cardinality({i \in 1..Len(items) : items[i] = id})

\* C30: for any number of workers, any batch size and any completion order
\* or failure of the batch tasks, the returned list contains every input
\* work item exactly once, each with its revisions field set (empty when
\* its fetch failed); items_processed is the number of input items and
\* failed_items <= items_processed.
C30_EveryItemReturnedOnce ==
  Returned =>
    /\ Len(fetch.all_items) = Len(fetch.work_items)
    /\ \A id \in 1..Len(fetch.work_items) :
         /\ Occurrences(fetch.all_items, id) = 1
         /\ fetch.revisions[id] # "unset"
         /\ id \in fetch.fetch_failed => fetch.revisions[id] = "empty"
    /\ fetch.items_processed = Len(fetch.work_items)
    /\ fetch.failed_items <= fetch.items_processed

\* three items in batches of two: the second batch completes first, the
\* first batch raises after it has fetched one item
C30_Witness ==
  /\ Returned
  /\ fetch.batch_size = 2
  /\ fetch.all_items = <<3, 1, 2>>
  /\ fetch.future = <<"failed", "done">>
  /\ fetch.processed = <<1, 1>>
  /\ fetch.revisions = <<"empty", "empty", "fetched">>
  /\ fetch.failed_items = 2

====
